---- MODULE Spec2Model ----
(***************************************************************************)
(* A model of the MCP tool server of src/mcp-kali-server.py: the transport *)
(* loop of main(), the dispatcher KaliMCPServer.process_request, the tool  *)
(* handlers and the process executor _execute_command. Spec is the server  *)
(* reading its input; ExecutorSpec calls the executor on its own.          *)
(*                                                                         *)
(* JSON values are tagged records, Python dictionaries are functions from  *)
(* their keys, and a call that may raise returns a record that says        *)
(* whether it raised, with which exception, and what it did on the way.    *)
(***************************************************************************)
EXTENDS Integers, Sequences, FiniteSets, TLC

VARIABLES
    tools,       \* self.tools, the registry built by _register_tools
    stdin_read,  \* the lines `for line in sys.stdin` has yielded so far
    stdout,      \* the lines printed so far, as decoded JSON
    flushed,     \* how many of them sys.stdout.flush() has pushed out
    last,        \* what the last loop iteration did: whether it dispatched, the
                 \* handler invoked, the executor calls, the exception caught,
                 \* and the environment it ran in
    pc,          \* "loop", or the way the process ended
    direct,      \* a call of the executor on its own: the function, its
                 \* arguments, the environment, and the outcome once it ended
    chat         \* localai/chat.py: where main() is, the ChatClient's
                 \* conversation_history, and what it did to get there

vars == <<tools, stdin_read, stdout, flushed, last, pc, direct, chat>>

(* ---------------------------------------------------------------- bounds *)

\* The number of input lines a behaviour reads.
MaxLines == 2

\* The interpreter's recursion limit (sys.getrecursionlimit()), scaled down.
RecursionLimit == 6

(* ----------------------------------------------------------- JSON values *)

Null == [t |-> "null"]
Num(n) == [t |-> "num", n |-> n]
Str(s) == [t |-> "str", s |-> s]
Arr(a) == [t |-> "arr", a |-> a]
Obj(m) == [t |-> "obj", m |-> m]
Bool(b) == [t |-> "bool", b |-> b]

\* {}
EmptyDict == [k \in {} |-> Null]

\* isinstance(v, dict)
IsDict(v) == v.t = "obj"

\* d.get(k, default), for a dictionary d
Get(d, k, default) == IF k \in DOMAIN d.m THEN d.m[k] ELSE default

\* d with d[k] = v
Put(d, k, v) == Obj((k :> v) @@ d.m)

\* A text whose characters the code inspects (a hash, a process's output) is
\* a sequence of pieces: single characters, or tokens no test looks inside.
\* StrT is the JSON string with that text.
StrT(pieces) == [t |-> "str", chars |-> pieces]

RECURSIVE Concat(_)
\* "".join(pieces)
Concat(pieces) == IF pieces = <<>> THEN "" ELSE Head(pieces) \o Concat(Tail(pieces))

Whitespace == {" ", "\n", "\t"}

RECURSIVE LStrip(_)
LStrip(pieces) ==
    IF pieces # <<>> /\ Head(pieces) \in Whitespace THEN LStrip(Tail(pieces)) ELSE pieces

RECURSIVE RStrip(_)
RStrip(pieces) ==
    IF pieces # <<>> /\ pieces[Len(pieces)] \in Whitespace
    THEN RStrip(SubSeq(pieces, 1, Len(pieces) - 1)) ELSE pieces

\* text.strip()
Strip(pieces) == RStrip(LStrip(pieces))

\* Python's truth value of v (`if not v`)
Truthy(v) ==
    CASE v.t = "null" -> FALSE
      [] v.t = "bool" -> v.b
      [] v.t = "num" -> v.n # 0
      [] v.t = "str" /\ "s" \in DOMAIN v -> v.s # ""
      [] v.t = "str" /\ "chars" \in DOMAIN v -> v.chars # <<>>
      [] v.t = "arr" -> v.a # <<>>
      [] v.t = "obj" -> DOMAIN v.m # {}
      [] OTHER -> TRUE

\* str(v), as an f-string formats it (containers by their brackets only)
PyStr(v) ==
    CASE v.t = "null" -> "None"
      [] v.t = "bool" -> IF v.b THEN "True" ELSE "False"
      [] v.t = "num" -> ToString(v.n)
      [] v.t = "str" /\ "s" \in DOMAIN v -> v.s
      [] v.t = "str" /\ "chars" \in DOMAIN v -> Concat(v.chars)
      [] v.t = "arr" -> IF v.a = <<>> THEN "[]" ELSE "[...]"
      [] v.t = "obj" -> IF DOMAIN v.m = {} THEN "{}" ELSE "{...}"
      [] OTHER -> "?"

\* type(v).__name__
PyType(v) ==
    CASE v.t = "null" -> "NoneType"
      [] v.t = "bool" -> "bool"
      [] v.t = "num" -> "int"
      [] v.t = "str" -> "str"
      [] v.t = "arr" -> "list"
      [] v.t = "obj" -> "dict"
      [] OTHER -> "object"

\* json.dumps(v, indent=2): a string, which is the serialisation of v
JsonDumps(v) == [t |-> "str", dumps |-> v]

(* ------------------------------------------------- returning and raising *)

\* The element of a one-element set: { e(x) : x \in {call} } binds the value
\* of a call to x, so that e uses it without calling again.
One(S) == CHOOSE x \in S : TRUE

\* A call's outcome: a returned value or a raised exception, with the log of
\* the executor calls ("exec") and process launches ("spawn") it made.
Ret(v, log) == [raised |-> FALSE, exc |-> "", msg |-> "", val |-> v, log |-> log]
Raise(exc, msg, log) == [raised |-> TRUE, exc |-> exc, msg |-> msg, val |-> Null, log |-> log]

\* Exceptions that `except Exception` does not catch.
BaseOnly == {"KeyboardInterrupt", "SystemExit"}

(* ----------------------------------------------------------- the registry *)

\* A descriptor: its name and, of its inputSchema, the names of the
\* properties and the required ones (descriptions and types left out).
Descriptor(name, props, required) ==
    Obj([name |-> Str(name),
         inputSchema |-> Obj([properties |-> Arr(props), required |-> Arr(required)])])

\* KaliMCPServer._register_tools
register_tools ==
    << Descriptor("nmap_scan", <<Str("target"), Str("scan_type"), Str("ports")>>, <<Str("target")>>),
       Descriptor("sqlmap_scan", <<Str("url"), Str("level"), Str("risk")>>, <<Str("url")>>),
       Descriptor("gobuster_scan", <<Str("url"), Str("wordlist"), Str("extensions")>>, <<Str("url")>>),
       Descriptor("hash_identify", <<Str("hash")>>, <<Str("hash")>>),
       Descriptor("john_crack", <<Str("hash_file"), Str("wordlist")>>, <<Str("hash_file")>>),
       Descriptor("analyze_with_localai", <<Str("data"), Str("analysis_type"), Str("localai_url")>>, <<Str("data")>>),
       Descriptor("wifi_scan", <<Str("interface")>>, <<>>),
       Descriptor("aircrack_crack", <<Str("capture_file"), Str("bssid"), Str("wordlist")>>,
                  <<Str("capture_file"), Str("bssid")>>) >>

(* ------------------------------------------------------- the environment *)

\* What the operating system answers during one request: the programs the
\* search path resolves, how a launched tool ends and what it prints, the
\* files that exist, and whether LocalAI answers.
Programs == {"which", "nmap", "sqlmap", "gobuster", "hashid", "hash-identifier",
             "john", "iwlist", "iw", "aircrack-ng"}

ProcOutcomes == {"exit0", "exit1", "timeout", "permission", "oserror"}

Files == {"/tmp/h.txt", "/tmp/c.cap", "/usr/share/wordlists/rockyou.txt"}

Env(path, proc, out, files, http) ==
    [path |-> path, proc |-> proc, out |-> out, files |-> files, http |-> http]

Envs ==
    { Env(Programs, "exit0", <<"[", "00:01", "]", " ", "KEY FOUND", "!", " ", "[", " ", "secret", " ", "]", "\n">>, Files, TRUE),
      Env(Programs, "exit1", <<"failed", "\n">>, Files, FALSE),
      Env(Programs, "timeout", <<>>, Files, TRUE),
      Env(Programs \ {"nmap", "iwlist"}, "permission", <<>>, {"/tmp/h.txt", "/tmp/c.cap"}, TRUE),
      Env({"which"}, "oserror", <<>>, Files, FALSE),
      Env({}, "exit0", <<"done", "\n">>, {}, FALSE) }

\* The environment of a request that asks the operating system nothing.
NoEnv == Env({}, "none", <<>>, {}, FALSE)

(* ---------------------------------------------------------- the executor *)

\* The dictionary _execute_command returns; stdout and stderr are texts.
ExecutionResult(success, out, err, returncode) ==
    [success |-> success, stdout |-> out, stderr |-> err, returncode |-> returncode]

\* The keyword arguments of the subprocess.run call of _execute_command:
\* capture_output=True together with stderr=subprocess.STDOUT.
CaptureOutput == TRUE
StderrRedirected == TRUE

\* subprocess.run(cmd, capture_output=True, text=True, timeout=timeout,
\* check=False, stderr=subprocess.STDOUT, input=input_text): run refuses
\* stdout/stderr arguments given together with capture_output before it
\* launches anything; otherwise the process runs, and ends as the environment
\* says (`which` by looking its argument up on the search path).
subprocess_run(cmd, timeout, input_text, env) ==
    IF CaptureOutput /\ StderrRedirected
    THEN Raise("ValueError", "stdout and stderr arguments may not be used with capture_output.", <<>>)
    ELSE IF \E i \in 1..Len(cmd) : cmd[i].t # "str"
    THEN Raise("TypeError", "expected str, bytes or os.PathLike object, not " \o
               PyType(cmd[CHOOSE i \in 1..Len(cmd) : cmd[i].t # "str"]), <<>>)
    ELSE IF cmd[1].s \notin env.path
    THEN Raise("FileNotFoundError", "[Errno 2] No such file or directory: '" \o cmd[1].s \o "'", <<>>)
    ELSE LET spawn == <<[ev |-> "spawn", cmd |-> cmd]>> IN
      IF cmd[1].s = "which"
      THEN IF Len(cmd) >= 2 /\ cmd[2].s \in env.path
           THEN Ret([returncode |-> 0, stdout |-> <<"/usr/bin/" \o cmd[2].s, "\n">>], spawn)
           ELSE Ret([returncode |-> 1, stdout |-> <<>>], spawn)
      ELSE CASE env.proc = "exit0" -> Ret([returncode |-> 0, stdout |-> env.out], spawn)
             [] env.proc = "exit1" -> Ret([returncode |-> 1, stdout |-> env.out], spawn)
             [] env.proc = "timeout" ->
                  \* run() kills the child and waits for it before it raises
                  Raise("TimeoutExpired", "timed out", spawn \o <<[ev |-> "kill", cmd |-> cmd]>>)
             [] env.proc = "permission" -> Raise("PermissionError", "[Errno 13] Permission denied: '" \o cmd[1].s \o "'", <<>>)
             [] OTHER -> Raise("OSError", "[Errno 8] Exec format error: '" \o cmd[1].s \o "'", <<>>)

RECURSIVE execute_command(_, _, _, _, _)
RECURSIVE check_tool_available(_, _, _)

\* _execute_command without the empty-command check of lines 122-128: the
\* availability check reads cmd[0] of the empty list.
execute_command_NoEmptyCheck(cmd, timeout, input_text, env, depth) ==
    IF depth > RecursionLimit
    THEN Raise("RecursionError", "maximum recursion depth exceeded", <<>>)
    ELSE IF cmd = <<>>
    THEN Raise("IndexError", "list index out of range", <<[ev |-> "exec", cmd |-> cmd]>>)
    ELSE One({
      IF avail.raised
      THEN Raise(avail.exc, avail.msg, <<[ev |-> "exec", cmd |-> cmd]>> \o avail.log)
      ELSE Ret(ExecutionResult(FALSE, <<>>, <<"Command not found: " \o PyStr(cmd[1])>>, -1),
               <<[ev |-> "exec", cmd |-> cmd]>> \o avail.log)
      : avail \in {check_tool_available(cmd[1], env, depth + 1)} })

\* KaliMCPServer._execute_command(cmd, timeout, input_text), called at call
\* depth `depth`: the empty-command check, the availability check (a call of
\* _check_tool_available, outside the try block), then subprocess.run inside
\* the try block and its except clauses.
execute_command(cmd, timeout, input_text, env, depth) ==
    IF depth > RecursionLimit
    THEN Raise("RecursionError", "maximum recursion depth exceeded", <<>>)
    ELSE LET entry == <<[ev |-> "exec", cmd |-> cmd]>> IN
      IF cmd = <<>>
      THEN Ret(ExecutionResult(FALSE, <<>>, <<"Empty command">>, -1), entry)
      ELSE One({
        IF avail.raised
        THEN Raise(avail.exc, avail.msg, entry \o avail.log)
        ELSE IF ~avail.val
        THEN Ret(ExecutionResult(FALSE, <<>>, <<"Command not found: " \o PyStr(cmd[1])>>, -1),
                 entry \o avail.log)
        ELSE LET run == subprocess_run(cmd, timeout, input_text, env)
                 log == entry \o avail.log \o run.log
             IN CASE ~run.raised ->
                       Ret(ExecutionResult(run.val.returncode = 0, run.val.stdout,
                                           run.val.stdout, run.val.returncode), log)
                  [] run.raised /\ run.exc = "TimeoutExpired" ->
                       Ret(ExecutionResult(FALSE, <<>>, <<"Command timed out after " \o
                                           ToString(timeout) \o " seconds">>, -1), log)
                  [] run.raised /\ run.exc = "FileNotFoundError" ->
                       Ret(ExecutionResult(FALSE, <<>>, <<"Command not found: " \o PyStr(cmd[1])>>, -1), log)
                  [] run.raised /\ run.exc = "PermissionError" ->
                       Ret(ExecutionResult(FALSE, <<>>, <<"Permission denied: " \o PyStr(cmd[1])>>, -1), log)
                  [] run.raised /\ run.exc \in BaseOnly ->
                       Raise(run.exc, run.msg, log)
                  [] OTHER ->
                       Ret(ExecutionResult(FALSE, <<>>, <<"Error executing command: " \o run.msg>>, -1), log)
        : avail \in {check_tool_available(cmd[1], env, depth + 1)} })

\* KaliMCPServer._check_tool_available(tool): runs `which tool` through
\* _execute_command and returns success and a non-blank output.
check_tool_available(tool, env, depth) ==
    IF depth > RecursionLimit
    THEN Raise("RecursionError", "maximum recursion depth exceeded", <<>>)
    ELSE One({
      IF result.raised
      THEN Raise(result.exc, result.msg, result.log)
      ELSE Ret(result.val.success /\ Strip(result.val.stdout) # <<>>, result.log)
      : result \in {execute_command(<<Str("which"), tool>>, 300, Null, env, depth + 1)} })

(* ---------------------------------------------------------- the handlers *)

\* os.path.exists(path)
PathExists(path, env) == path.t = "str" /\ PyStr(path) \in env.files

\* "error": result["stderr"] if not result["success"] else None
ErrorOf(result) == IF ~result.success THEN StrT(result.stderr) ELSE Null

\* The payload of a handler that found its program missing, or a file.
ErrorPayload(message) == Obj([error |-> Str(message)])

\* params[key] of a missing key
KeyError(key, log) == Raise("KeyError", "'" \o key \o "'", log)

\* The return statement the scanning handlers share: the handler's own
\* fields, then "output": result["stdout"] and "error": the error text of a
\* failed result. An exception of the executor passes through.
Shape(fields, result, log) ==
    IF result.raised THEN Raise(result.exc, result.msg, log \o result.log)
    ELSE Ret(Obj(fields @@ [output |-> StrT(result.val.stdout), error |-> ErrorOf(result.val)]),
             log \o result.log)

\* KaliMCPServer.handle_nmap_scan
handle_nmap_scan(params, env) ==
    One({
      IF avail.raised THEN avail
      ELSE IF ~avail.val
      THEN Ret(ErrorPayload("nmap not found. Install with: just install-kali-tools"), avail.log)
      ELSE IF "target" \notin DOMAIN params.m THEN KeyError("target", avail.log)
      ELSE LET target == params.m["target"]
               scan_type == Get(params, "scan_type", Str("quick"))
               ports == Get(params, "ports", Str(""))
               flags == IF scan_type = Str("stealth") THEN <<Str("-sS"), Str("-T2")>>
                        ELSE IF scan_type = Str("full") THEN <<Str("-sV"), Str("-sC"), Str("-A")>>
                        ELSE <<Str("-sV"), Str("-sC")>>
               cmd == <<Str("nmap")>> \o flags \o
                      (IF Truthy(ports) THEN <<Str("-p"), ports>> ELSE <<>>) \o <<target>>
           IN One({ Shape([tool |-> Str("nmap"), target |-> target], result, avail.log)
                    : result \in {execute_command(cmd, 300, Null, env, 1)} })
      : avail \in {check_tool_available(Str("nmap"), env, 1)} })

\* KaliMCPServer.handle_sqlmap_scan
handle_sqlmap_scan(params, env) ==
    One({
      IF avail.raised THEN avail
      ELSE IF ~avail.val
      THEN Ret(ErrorPayload("sqlmap not found. Install with: just install-kali-tools"), avail.log)
      ELSE IF "url" \notin DOMAIN params.m THEN KeyError("url", avail.log)
      ELSE LET url == params.m["url"]
               level == Get(params, "level", Num(1))
               risk == Get(params, "risk", Num(1))
               cmd == <<Str("sqlmap"), Str("-u"), url, Str("--batch"), Str("--level"),
                        Str(PyStr(level)), Str("--risk"), Str(PyStr(risk))>>
           IN One({ Shape([tool |-> Str("sqlmap"), url |-> url], result, avail.log)
                    : result \in {execute_command(cmd, 600, Null, env, 1)} })
      : avail \in {check_tool_available(Str("sqlmap"), env, 1)} })

\* KaliMCPServer.handle_gobuster_scan
handle_gobuster_scan(params, env) ==
    One({
      IF avail.raised THEN avail
      ELSE IF ~avail.val
      THEN Ret(ErrorPayload("gobuster not found. Install with: just install-kali-tools"), avail.log)
      ELSE IF "url" \notin DOMAIN params.m THEN KeyError("url", avail.log)
      ELSE LET url == params.m["url"]
               wordlist == Get(params, "wordlist", Str("/usr/share/wordlists/dirb/common.txt"))
               extensions == Get(params, "extensions", Str(""))
               cmd == <<Str("gobuster"), Str("dir"), Str("-u"), url, Str("-w"), wordlist>> \o
                      (IF Truthy(extensions) THEN <<Str("-x"), extensions>> ELSE <<>>)
           IN One({ Shape([tool |-> Str("gobuster"), url |-> url], result, avail.log)
                    : result \in {execute_command(cmd, 600, Null, env, 1)} })
      : avail \in {check_tool_available(Str("gobuster"), env, 1)} })

\* KaliMCPServer.handle_analyze_with_localai: no executor call; the HTTP
\* request to LocalAI succeeds or fails as the environment says.
handle_analyze_with_localai(params, env) ==
    IF "data" \notin DOMAIN params.m THEN KeyError("data", <<>>)
    ELSE LET analysis_type == Get(params, "analysis_type", Str("security"))
         IN IF analysis_type.t \in {"arr", "obj"}
            THEN Raise("TypeError", "unhashable type: '" \o PyType(analysis_type) \o "'", <<>>)
            ELSE IF env.http
            THEN Ret(Obj([tool |-> Str("localai_analysis"), analysis_type |-> analysis_type,
                          output |-> Str("analysis")]), <<>>)
            ELSE Ret(ErrorPayload("Failed to connect to LocalAI: <urlopen error [Errno 111] Connection refused>"),
                     <<>>)

\* c.lower(), for the characters a hexadecimal test tells apart
Lower(c) ==
    CASE c = "A" -> "a" [] c = "B" -> "b" [] c = "C" -> "c"
      [] c = "D" -> "d" [] c = "E" -> "e" [] c = "F" -> "f"
      [] OTHER -> c

HexDigits == {"0", "1", "2", "3", "4", "5", "6", "7", "8", "9", "a", "b", "c", "d", "e", "f"}

\* all(c in '0123456789abcdef' for c in text.lower())
AllHex(chars) == \A i \in 1..Len(chars) : Lower(chars[i]) \in HexDigits

\* text.startswith(prefix)
StartsWith(chars, prefix) ==
    Len(chars) >= Len(prefix) /\ SubSeq(chars, 1, Len(prefix)) = prefix

\* The length/prefix heuristic of handle_hash_identify: possible_types.
possible_types(chars) ==
    LET hash_len == Len(chars) IN
    IF hash_len = 32 /\ AllHex(chars) THEN <<"MD5">>
    ELSE IF hash_len = 40 /\ AllHex(chars) THEN <<"SHA1">>
    ELSE IF hash_len = 64 /\ AllHex(chars) THEN <<"SHA256">>
    ELSE IF StartsWith(chars, <<"$", "2">>) \/ StartsWith(chars, <<"$", "2", "a">>)
            \/ StartsWith(chars, <<"$", "2", "b">>) THEN <<"bcrypt">>
    ELSE IF StartsWith(chars, <<"$", "1", "$">>) THEN <<"MD5 Crypt">>
    ELSE IF StartsWith(chars, <<"$", "5", "$">>) THEN <<"SHA256 Crypt">>
    ELSE IF StartsWith(chars, <<"$", "6", "$">>) THEN <<"SHA512 Crypt">>
    ELSE <<>>

\* The else branch of handle_hash_identify: the length/prefix analysis.
hash_heuristic(hash_value, log) ==
    IF hash_value.t \in {"null", "bool", "num"}
    THEN Raise("TypeError", "object of type '" \o PyType(hash_value) \o "' has no len()", log)
    ELSE IF hash_value.t \in {"arr", "obj"}
    THEN Raise("AttributeError", "'" \o PyType(hash_value) \o "' object has no attribute 'startswith'", log)
    ELSE LET hash_len == Len(hash_value.chars)
             types == possible_types(hash_value.chars)
         IN Ret(Obj([tool |-> Str("hash_identify"), hash |-> hash_value,
                     length |-> Num(hash_len),
                     possible_types |-> IF types # <<>> THEN Arr(<<Str(types[1])>>)
                                        ELSE Arr(<<Str("Unknown - install hashid for better detection")>>),
                     output |-> Str("Hash length: " \o ToString(hash_len) \o ", Possible types: " \o
                                    (IF types # <<>> THEN types[1] ELSE "Unknown"))]),
                log)

\* KaliMCPServer.handle_hash_identify
handle_hash_identify(params, env) ==
    IF "hash" \notin DOMAIN params.m THEN KeyError("hash", <<>>)
    ELSE LET hash_value == params.m["hash"] IN
      One({
        IF hashid.raised THEN hashid
        ELSE IF hashid.val
        THEN One({ Shape([tool |-> Str("hashid"), hash |-> hash_value], result, hashid.log)
                   : result \in {execute_command(<<Str("hashid"), hash_value>>, 300, Null, env, 1)} })
        ELSE One({
          IF identifier.raised
          THEN Raise(identifier.exc, identifier.msg, hashid.log \o identifier.log)
          ELSE IF identifier.val
          THEN IF hash_value.t # "str"
               THEN Raise("TypeError", "unsupported operand type(s) for +: '" \o
                          PyType(hash_value) \o "' and 'str'", hashid.log \o identifier.log)
               ELSE One({ Shape([tool |-> Str("hash-identifier"), hash |-> hash_value], result,
                                hashid.log \o identifier.log)
                          : result \in {execute_command(<<Str("hash-identifier")>>, 300,
                                                        StrT(hash_value.chars \o <<"\n">>), env, 1)} })
          ELSE hash_heuristic(hash_value, hashid.log \o identifier.log)
          : identifier \in {check_tool_available(Str("hash-identifier"), env, 1)} })
        : hashid \in {check_tool_available(Str("hashid"), env, 1)} })

\* KaliMCPServer.handle_john_crack
handle_john_crack(params, env) ==
    One({
      IF avail.raised THEN avail
      ELSE IF ~avail.val
      THEN Ret(ErrorPayload("john not found. Install with: just install-kali-tools"), avail.log)
      ELSE IF "hash_file" \notin DOMAIN params.m THEN KeyError("hash_file", avail.log)
      ELSE LET hash_file == params.m["hash_file"]
               wordlist == Get(params, "wordlist", Str("/usr/share/wordlists/rockyou.txt"))
               cmd == <<Str("john"), Str("--wordlist"), wordlist, hash_file>>
           IN
        IF ~PathExists(hash_file, env)
        THEN Ret(ErrorPayload("Hash file not found: " \o PyStr(hash_file)), avail.log)
        ELSE IF ~PathExists(wordlist, env)
        THEN Ret(ErrorPayload("Wordlist not found: " \o PyStr(wordlist)), avail.log)
        ELSE One({ Shape([tool |-> Str("john"), hash_file |-> hash_file, wordlist |-> wordlist],
                         result, avail.log)
                   : result \in {execute_command(cmd, 3600, Null, env, 1)} })
      : avail \in {check_tool_available(Str("john"), env, 1)} })

\* KaliMCPServer.handle_wifi_scan
handle_wifi_scan(params, env) ==
    One({
      IF iwlist.raised THEN iwlist
      ELSE One({
        IF iw.raised THEN Raise(iw.exc, iw.msg, iwlist.log \o iw.log)
        ELSE IF ~iw.val
        THEN Ret(ErrorPayload("WiFi scanning tools not found. Install wireless-tools or iw"),
                 iwlist.log \o iw.log)
        ELSE LET interface == Get(params, "interface", Str("wlan0")) IN
          One({
            IF again.raised THEN Raise(again.exc, again.msg, iwlist.log \o iw.log \o again.log)
            ELSE LET cmd == IF again.val THEN <<Str("iwlist"), interface, Str("scan")>>
                            ELSE <<Str("iw"), Str("dev"), interface, Str("scan")>>
                 IN One({ Shape([tool |-> Str("wifi_scan"), interface |-> interface], result,
                                iwlist.log \o iw.log \o again.log)
                          : result \in {execute_command(cmd, 30, Null, env, 1)} })
            : again \in {check_tool_available(Str("iwlist"), env, 1)} })
        : iw \in {IF iwlist.val THEN Ret(TRUE, <<>>)
                  ELSE check_tool_available(Str("iw"), env, 1)} })
      : iwlist \in {check_tool_available(Str("iwlist"), env, 1)} })

\* "KEY FOUND" in text
KeyFound(pieces) == \E i \in 1..Len(pieces) : pieces[i] = "KEY FOUND"

\* re.search(r'\[(.*?)\]', text): the leftmost "[" that a "]" follows on
\* the same line, up to the first such "]"; <<>> when there is no match,
\* else <<i, j>>, the positions of the two brackets.
BracketMatch(pieces) ==
    LET closes(i) == { j \in (i + 1)..Len(pieces) :
                         /\ pieces[j] = "]"
                         /\ \A k \in (i + 1)..(j - 1) : pieces[k] # "\n" }
        opens == { i \in 1..Len(pieces) : pieces[i] = "[" /\ closes(i) # {} }
    IN IF opens = {} THEN <<>>
       ELSE LET i == CHOOSE a \in opens : \A b \in opens : a <= b
                j == CHOOSE a \in closes(i) : \A b \in closes(i) : a <= b
            IN <<i, j>>

\* The return statement of handle_aircrack_crack, with the password taken
\* from the output.
ShapeAircrack(fields, result, log) ==
    IF result.raised THEN Raise(result.exc, result.msg, log \o result.log)
    ELSE LET out == result.val.stdout
             match == IF result.val.success /\ KeyFound(out) THEN BracketMatch(out) ELSE <<>>
             password == IF match # <<>>
                         THEN StrT(Strip(SubSeq(out, match[1] + 1, match[2] - 1)))
                         ELSE Null
         IN Ret(Obj(fields @@ [password |-> password, output |-> StrT(out),
                               error |-> ErrorOf(result.val)]),
                log \o result.log)

\* KaliMCPServer.handle_aircrack_crack
handle_aircrack_crack(params, env) ==
    One({
      IF avail.raised THEN avail
      ELSE IF ~avail.val
      THEN Ret(ErrorPayload("aircrack-ng not found. Install with: just install-kali-tools"), avail.log)
      ELSE IF "capture_file" \notin DOMAIN params.m THEN KeyError("capture_file", avail.log)
      ELSE IF "bssid" \notin DOMAIN params.m THEN KeyError("bssid", avail.log)
      ELSE LET capture_file == params.m["capture_file"]
               bssid == params.m["bssid"]
               wordlist == Get(params, "wordlist", Str("/usr/share/wordlists/rockyou.txt"))
               cmd == <<Str("aircrack-ng"), Str("-w"), wordlist, Str("-b"), bssid, capture_file>>
           IN
        IF ~PathExists(capture_file, env)
        THEN Ret(ErrorPayload("Capture file not found: " \o PyStr(capture_file)), avail.log)
        ELSE IF ~PathExists(wordlist, env)
        THEN Ret(ErrorPayload("Wordlist not found: " \o PyStr(wordlist)), avail.log)
        ELSE One({ ShapeAircrack([tool |-> Str("aircrack-ng"), capture_file |-> capture_file,
                                  bssid |-> bssid, wordlist |-> wordlist], result, avail.log)
                   : result \in {execute_command(cmd, 3600, Null, env, 1)} })
      : avail \in {check_tool_available(Str("aircrack-ng"), env, 1)} })

\* HandlerNames without the wifi_scan entry.
HandlerNames_NoWifi ==
    {"nmap_scan", "sqlmap_scan", "gobuster_scan", "analyze_with_localai",
     "hash_identify", "john_crack", "aircrack_crack"}

\* The keys of the handlers dictionary of handle_tool_call.
HandlerNames == {"nmap_scan", "sqlmap_scan", "gobuster_scan", "analyze_with_localai",
                 "hash_identify", "john_crack", "wifi_scan", "aircrack_crack"}

\* handlers[name](params)
Handler(name, params, env) ==
    CASE name = "nmap_scan" -> handle_nmap_scan(params, env)
      [] name = "sqlmap_scan" -> handle_sqlmap_scan(params, env)
      [] name = "gobuster_scan" -> handle_gobuster_scan(params, env)
      [] name = "analyze_with_localai" -> handle_analyze_with_localai(params, env)
      [] name = "hash_identify" -> handle_hash_identify(params, env)
      [] name = "john_crack" -> handle_john_crack(params, env)
      [] name = "wifi_scan" -> handle_wifi_scan(params, env)
      [] OTHER -> handle_aircrack_crack(params, env)

\* KaliMCPServer.handle_tool_call(name, params): the handler's outcome, and
\* which handler ran ("" when none did).
handle_tool_call(name, params, env) ==
    IF name.t \in {"arr", "obj"}
    THEN [out |-> Raise("TypeError", "unhashable type: '" \o PyType(name) \o "'", <<>>), handler |-> ""]
    ELSE IF name.t = "str" /\ PyStr(name) \in HandlerNames
    THEN [out |-> Handler(PyStr(name), params, env), handler |-> PyStr(name)]
    ELSE [out |-> Ret(ErrorPayload("Unknown tool: " \o PyStr(name)), <<>>), handler |-> ""]

(* --------------------------------------------------------- the dispatcher *)

\* {"error": message}, the dictionary process_request returns for a failure
DispatchError(message) == Obj([error |-> Str(message)])

\* What process_request returned (or raised), the handler it invoked, the
\* executor calls made on the way, and the exception its except clause
\* caught ("" when none).
Dispatched(out, handler, log) == [out |-> out, handler |-> handler, log |-> log, caught |-> ""]

\* The except clause of process_request: `except Exception as e`.
CatchInDispatcher(out, handler) ==
    IF out.raised /\ out.exc \notin BaseOnly
    THEN [out |-> Ret(DispatchError("Error processing request: " \o out.msg), out.log),
          handler |-> handler, log |-> out.log, caught |-> out.exc]
    ELSE Dispatched(out, handler, out.log)

\* KaliMCPServer.process_request(request)
process_request(request, env) ==
    IF ~IsDict(request)
    THEN CatchInDispatcher(Raise("AttributeError", "'" \o PyType(request) \o
                                 "' object has no attribute 'get'", <<>>), "")
    ELSE LET method == Get(request, "method", Null)
             params == Get(request, "params", Obj(EmptyDict))
         IN
      IF method = Str("tools/list")
      THEN Dispatched(Ret(Obj([tools |-> Arr(tools)]), <<>>), "", <<>>)
      ELSE IF method = Str("tools/call")
      THEN IF ~IsDict(params)
           THEN CatchInDispatcher(Raise("AttributeError", "'" \o PyType(params) \o
                                        "' object has no attribute 'get'", <<>>), "")
           ELSE LET tool_name == Get(params, "name", Null)
                    arguments == Get(params, "arguments", Obj(EmptyDict))
                IN
             IF ~Truthy(tool_name)
             THEN Dispatched(Ret(DispatchError("Tool name is required"), <<>>), "", <<>>)
             ELSE IF ~IsDict(arguments)
             THEN Dispatched(Ret(DispatchError("Arguments must be a dictionary"), <<>>), "", <<>>)
             ELSE One({
               IF call.out.raised
               THEN CatchInDispatcher(call.out, call.handler)
               ELSE Dispatched(Ret(Obj([content |-> Arr(<<Obj([type |-> Str("text"),
                                                               text |-> JsonDumps(call.out.val)])>>)]),
                                   call.out.log),
                               call.handler, call.out.log)
               : call \in {handle_tool_call(tool_name, arguments, env)} })
      ELSE IF method = Str("initialize")
      THEN Dispatched(Ret(Obj([protocolVersion |-> Str("2024-11-05"),
                               capabilities |-> Obj([tools |-> Obj(EmptyDict)]),
                               serverInfo |-> Obj([name |-> Str("kali-tools-mcp-server"),
                                                   version |-> Str("1.0.0")])]), <<>>), "", <<>>)
      ELSE Dispatched(Ret(DispatchError("Unknown method: " \o PyStr(method)), <<>>), "", <<>>)

(* ------------------------------------------------------ the transport loop *)

\* An input line: blank, text that is not JSON, the text of a JSON value, or
\* JSON text that json.loads gives up on with an exception that is not a
\* JSONDecodeError (nesting beyond the recursion limit, an integer literal
\* beyond the digit limit of int).
BlankLine(text) == [kind |-> "blank", text |-> text]
NotJson(text) == [kind |-> "notjson", text |-> text]
Json(value) == [kind |-> "json", value |-> value]
Undecodable(text, exc, msg) == [kind |-> "undecodable", text |-> text, exc |-> exc, msg |-> msg]

\* line.strip()
IsBlank(line) == line.kind = "blank"

\* json.loads(line.strip())
json_loads(line) ==
    IF line.kind = "json" THEN Ret(line.value, <<>>)
    ELSE IF line.kind = "undecodable" THEN Raise(line.exc, line.msg, <<>>)
    ELSE Raise("JSONDecodeError", "Expecting value: line 1 column 1 (char 0)", <<>>)

\* The error responses main() builds itself.
ErrorResponse(code, message, id) ==
    Obj([jsonrpc |-> Str("2.0"),
         error |-> Obj([code |-> Num(code), message |-> Str(message)]),
         id |-> id])

ParseErrorCode == -32700
InternalErrorCode == -32603

\* `"id" in request`, for whatever json.loads returned
IdIn(request) ==
    CASE request.t = "obj" -> Ret("id" \in DOMAIN request.m, <<>>)
      [] request.t = "arr" -> Ret(\E i \in 1..Len(request.a) : request.a[i] = Str("id"), <<>>)
      [] request.t = "str" ->
           Ret(\E i \in 1..(Len(request.chars) - 1) :
                   request.chars[i] = "i" /\ request.chars[i + 1] = "d", <<>>)
      [] OTHER -> Raise("TypeError", "argument of type '" \o PyType(request) \o "' is not iterable", <<>>)

\* request["id"], once "id" in request
IdOf(request) ==
    IF request.t = "obj" THEN Ret(request.m["id"], <<>>)
    ELSE IF request.t = "arr"
    THEN Raise("TypeError", "list indices must be integers or slices, not str", <<>>)
    ELSE Raise("TypeError", "string indices must be integers, not 'str'", <<>>)

\* ResponseId with the identifier dropped: every response gets a null id.
ResponseId_NoEcho(request) == Ret(Null, <<>>)

\* The id main() gives the response: request["id"] if "id" in request, else
\* None; either step raises when the request is no dictionary.
ResponseId(request) ==
    One({ IF has.raised THEN has
          ELSE IF has.val THEN IdOf(request) ELSE Ret(Null, <<>>)
          : has \in {IdIn(request)} })

\* ErrorId taking the id from the request itself when it is no dictionary.
ErrorId_OfAnything(request) == IF IsDict(request) THEN Get(request, "id", Null) ELSE request

\* request.get("id") if isinstance(request, dict) else None
ErrorId(request) == IF IsDict(request) THEN Get(request, "id", Null) ELSE Null

\* Lines 528-548 of main(): dispatch, add "jsonrpc" and the id, and the
\* internal-error response of the except clause. `line` is the response
\* printed; the rest is what the dispatcher did. (No call of this model
\* raises an exception that `except Exception` lets through.)
Respond(request, env) ==
    One({
      [handler |-> d.handler, log |-> d.log, caught |-> d.caught,
       line |-> IF d.out.raised
                THEN ErrorResponse(InternalErrorCode, "Internal error: " \o d.out.msg, ErrorId(request))
                ELSE One({ IF id.raised
                           THEN ErrorResponse(InternalErrorCode, "Internal error: " \o id.msg,
                                              ErrorId(request))
                           ELSE Put(Put(d.out.val, "jsonrpc", Str("2.0")), "id", id.val)
                           : id \in {ResponseId(request)} })]
      : d \in {process_request(request, env)} })

(* ------------------------------------------------------------- the input *)

\* A tools/call request body.
Call(params) == [method |-> Str("tools/call"), params |-> params]

\* The text "5f4dcc3b5aa765d61d8327deb882cf99", by characters.
Md5OfPassword ==
    <<"5", "f", "4", "d", "c", "c", "3", "b", "5", "a", "a", "7", "6", "5", "d", "6",
      "1", "d", "8", "3", "2", "7", "d", "e", "b", "8", "8", "2", "c", "f", "9", "9">>

\* Arguments that hold every required parameter of the tool.
FullArguments(name) ==
    CASE name = "nmap_scan" -> [target |-> Str("10.0.0.1"), ports |-> Str("80,443")]
      [] name = "sqlmap_scan" -> [url |-> Str("http://t/?id=1")]
      [] name = "gobuster_scan" -> [url |-> Str("http://t/"), extensions |-> Str("php")]
      [] name = "analyze_with_localai" -> [data |-> Str("open ports: 22")]
      [] name = "hash_identify" -> [hash |-> StrT(Md5OfPassword)]
      [] name = "john_crack" -> [hash_file |-> Str("/tmp/h.txt")]
      [] name = "wifi_scan" -> [interface |-> Str("wlan1")]
      [] OTHER -> [capture_file |-> Str("/tmp/c.cap"), bssid |-> Str("00:11:22:33:44:55")]

\* The names the registry lists, in its order.
ToolNames == { register_tools[i].m["name"].s : i \in 1..Len(register_tools) }

\* Request objects without an "id" member.
RequestsNoId ==
    { [method |-> Str("tools/list")],
      [method |-> Str("tools/call")],
      Call(Obj([name |-> Str("")])),
      Call(Arr(<<>>)),
      Call(Obj([name |-> Str("no_such_tool"), arguments |-> Obj(EmptyDict)])),
      Call(Obj([name |-> Arr(<<Str("nmap_scan")>>)])),
      Call(Obj([name |-> Str("aircrack_crack"),
                arguments |-> Obj([capture_file |-> Str("/tmp/c.cap")])])) }
    \cup { Call(Obj([name |-> Str(n), arguments |-> Obj(EmptyDict)]))
           : n \in {"nmap_scan", "hash_identify", "wifi_scan"} }

\* Request objects with "id": 1.
RequestsId1 ==
    { [method |-> Str("tools/list"), id |-> Num(1)],
      [method |-> Str("initialize"), id |-> Num(1)],
      [method |-> Str("resources/list"), id |-> Num(1)],
      [method |-> Num(5), id |-> Num(1)],
      [id |-> Num(1)],
      [method |-> Str("tools/call"), id |-> Num(1),
       params |-> Obj([name |-> Str("nmap_scan"), arguments |-> Arr(<<>>)])],
      [method |-> Str("tools/call"), id |-> Num(1), params |-> Obj([name |-> Num(7)])] }
    \cup { [method |-> Str("tools/call"), id |-> Num(1),
            params |-> Obj([name |-> Str(n), arguments |-> Obj(FullArguments(n))])] : n \in ToolNames }

\* Request objects with other identifiers: a string, null, an object.
RequestsOtherId ==
    { [method |-> Str("tools/list"), id |-> Str("a")],
      [method |-> Str("tools/list"), id |-> Null],
      [method |-> Str("initialize"), id |-> Obj([k |-> Num(2)])],
      [method |-> Str("tools/call"), id |-> Str("b"),
       params |-> Obj([name |-> Str("no_such_tool")])] }

RequestObjects == { Obj(m) : m \in RequestsNoId \cup RequestsId1 \cup RequestsOtherId }

\* JSON values that are not objects.
NonObjects ==
    { Arr(<<>>), Arr(<<Str("id")>>), StrT(<<"i", "d">>), Num(5), Bool(TRUE), Null }

BlankLines == { BlankLine(""), BlankLine("  ") }
NotJsonLines == { NotJson("not json") }
UndecodableLines ==
    { Undecodable("[[[[ ... ]]]] (100000 deep)", "RecursionError",
                  "maximum recursion depth exceeded while decoding a JSON array from a unicode string"),
      Undecodable("1234 ... (5400 digits)", "ValueError",
                  "Exceeds the limit (4300 digits) for integer string conversion") }
JsonLines == { Json(v) : v \in RequestObjects \cup NonObjects }

\* The environments the server's requests meet: every program installed, or
\* none but `which`.
ServerEnvs == { env \in Envs : env.path \in {Programs, {"which"}} }

\* The request is one process_request hands to handle_tool_call.
ReachesHandlers(request) ==
    /\ IsDict(request) /\ Get(request, "method", Null) = Str("tools/call")
    /\ IsDict(Get(request, "params", Obj(EmptyDict)))
    /\ Truthy(Get(Get(request, "params", Obj(EmptyDict)), "name", Null))
    /\ IsDict(Get(Get(request, "params", Obj(EmptyDict)), "arguments", Obj(EmptyDict)))

\* The environments to tell apart for a line: only the handlers ask the
\* operating system anything.
EnvsOf(line) == IF ReachesHandlers(line.value) THEN ServerEnvs ELSE {NoEnv}

(* ------------------------------------------------------------ the actions *)

\* No call of the executor on its own: the server is what runs.
NoCall == [fn |-> "none"]

\* What an iteration that dispatched nothing leaves in `last`.
Idle == [dispatched |-> FALSE, handler |-> "", log |-> <<>>, caught |-> "", env |-> NoEnv]

\* chat.py is not running: the server is what runs.
NoChat == [at |-> "none"]

Init ==
    /\ tools = register_tools
    /\ stdin_read = <<>>
    /\ stdout = <<>>
    /\ flushed = 0
    /\ last = Idle
    /\ pc = "loop"
    /\ direct = NoCall
    /\ chat = NoChat

\* SkipBlank handing the blank line to json.loads: a parse error is written.
SkipBlank_Answers(line) ==
    /\ pc = "loop"
    /\ Len(stdin_read) < MaxLines
    /\ IsBlank(line)
    /\ stdin_read' = Append(stdin_read, line)
    /\ stdout' = Append(stdout, ErrorResponse(ParseErrorCode,
                                              "Parse error: Expecting value: line 1 column 1 (char 0)", Null))
    /\ last' = Idle
    /\ flushed' = Len(stdout')
    /\ UNCHANGED <<tools, pc, direct, chat>>

\* main(), lines 510-511: a blank line is skipped.
SkipBlank(line) ==
    /\ pc = "loop"
    /\ Len(stdin_read) < MaxLines
    /\ IsBlank(line)
    /\ stdin_read' = Append(stdin_read, line)
    /\ last' = Idle
    /\ UNCHANGED <<tools, stdout, flushed, pc, direct, chat>>

\* ParseError answering with the internal-error code.
ParseError_WrongCode(line) ==
    /\ pc = "loop"
    /\ Len(stdin_read) < MaxLines
    /\ ~IsBlank(line)
    /\ json_loads(line).raised /\ json_loads(line).exc = "JSONDecodeError"
    /\ stdin_read' = Append(stdin_read, line)
    /\ stdout' = Append(stdout, ErrorResponse(InternalErrorCode,
                                              "Parse error: " \o json_loads(line).msg, Null))
    /\ last' = Idle
    /\ flushed' = Len(stdout')
    /\ UNCHANGED <<tools, pc, direct, chat>>

\* main(), lines 513-526: json.loads raises JSONDecodeError.
ParseError(line) ==
    /\ pc = "loop"
    /\ Len(stdin_read) < MaxLines
    /\ ~IsBlank(line)
    /\ json_loads(line).raised /\ json_loads(line).exc = "JSONDecodeError"
    /\ stdin_read' = Append(stdin_read, line)
    /\ stdout' = Append(stdout, ErrorResponse(ParseErrorCode,
                                              "Parse error: " \o json_loads(line).msg, Null))
    /\ last' = Idle
    /\ flushed' = Len(stdout')
    /\ UNCHANGED <<tools, pc, direct, chat>>

\* main(), line 514 and lines 551-562: json.loads raises an exception that
\* is no JSONDecodeError, which only the outer except clause catches: one
\* fatal-error response, then sys.exit(1).
DecodeFailure(line) ==
    /\ pc = "loop"
    /\ Len(stdin_read) < MaxLines
    /\ ~IsBlank(line)
    /\ json_loads(line).raised /\ json_loads(line).exc \notin {"JSONDecodeError"} \cup BaseOnly
    /\ stdin_read' = Append(stdin_read, line)
    /\ stdout' = Append(stdout, ErrorResponse(InternalErrorCode,
                                              "Fatal error: " \o json_loads(line).msg, Null))
    /\ last' = Idle
    /\ pc' = "fatal"
    /\ flushed' = Len(stdout')
    /\ UNCHANGED <<tools, direct, chat>>

\* HandleRequest with a handler that takes its tool out of the registry.
HandleRequest_Unregisters(line, env) ==
    /\ pc = "loop"
    /\ Len(stdin_read) < MaxLines
    /\ ~IsBlank(line)
    /\ ~json_loads(line).raised
    /\ \E r \in {Respond(json_loads(line).val, env)} :
          /\ stdout' = Append(stdout, r.line)
          /\ last' = [dispatched |-> TRUE, handler |-> r.handler, log |-> r.log,
                      caught |-> r.caught, env |-> env]
          /\ tools' = IF r.handler = "" THEN tools
                      ELSE SelectSeq(tools, LAMBDA d : d.m["name"] # Str(r.handler))
    /\ stdin_read' = Append(stdin_read, line)
    /\ flushed' = Len(stdout')
    /\ UNCHANGED <<pc, direct, chat>>

\* HandleRequest writing its response ahead of the earlier ones.
HandleRequest_Reorders(line, env) ==
    /\ pc = "loop"
    /\ Len(stdin_read) < MaxLines
    /\ ~IsBlank(line)
    /\ ~json_loads(line).raised
    /\ \E r \in {Respond(json_loads(line).val, env)} :
          /\ stdout' = <<r.line>> \o stdout
          /\ last' = [dispatched |-> TRUE, handler |-> r.handler, log |-> r.log,
                      caught |-> r.caught, env |-> env]
    /\ stdin_read' = Append(stdin_read, line)
    /\ flushed' = Len(stdout')
    /\ UNCHANGED <<tools, pc, direct, chat>>

\* HandleRequest without sys.stdout.flush(): the response stays in the buffer.
HandleRequest_NoFlush(line, env) ==
    /\ pc = "loop"
    /\ Len(stdin_read) < MaxLines
    /\ ~IsBlank(line)
    /\ ~json_loads(line).raised
    /\ \E r \in {Respond(json_loads(line).val, env)} :
          /\ stdout' = Append(stdout, r.line)
          /\ last' = [dispatched |-> TRUE, handler |-> r.handler, log |-> r.log,
                      caught |-> r.caught, env |-> env]
    /\ stdin_read' = Append(stdin_read, line)
    /\ UNCHANGED <<tools, flushed, pc, direct, chat>>

\* main(), lines 528-548: the line decoded; dispatch and print the response.
HandleRequest(line, env) ==
    /\ pc = "loop"
    /\ Len(stdin_read) < MaxLines
    /\ ~IsBlank(line)
    /\ ~json_loads(line).raised
    /\ \E r \in {Respond(json_loads(line).val, env)} :
          /\ stdout' = Append(stdout, r.line)
          /\ last' = [dispatched |-> TRUE, handler |-> r.handler, log |-> r.log,
                      caught |-> r.caught, env |-> env]
    /\ stdin_read' = Append(stdin_read, line)
    /\ flushed' = Len(stdout')
    /\ UNCHANGED <<tools, pc, direct, chat>>

\* The for loop ends with the input stream: main() returns.
EndOfInput ==
    /\ pc = "loop"
    /\ pc' = "returned"
    /\ UNCHANGED <<tools, stdin_read, stdout, flushed, last, direct, chat>>

\* main(), lines 549-550: KeyboardInterrupt while waiting for a line.
Interrupt ==
    /\ pc = "loop"
    /\ pc' = "interrupted"
    /\ UNCHANGED <<tools, stdin_read, stdout, flushed, last, direct, chat>>

\* ReadFailure exiting without the fatal-error response.
ReadFailure_Silent ==
    /\ pc = "loop"
    /\ pc' = "fatal"
    /\ UNCHANGED <<tools, stdin_read, stdout, flushed, last, direct, chat>>

\* main(), lines 551-562: reading the stream fails (an I/O or decoding
\* error of sys.stdin); one fatal-error response, then sys.exit(1).
ReadFailure ==
    /\ pc = "loop"
    /\ pc' = "fatal"
    /\ stdout' = Append(stdout, ErrorResponse(InternalErrorCode,
                                              "Fatal error: [Errno 5] Input/output error", Null))
    /\ flushed' = Len(stdout')
    /\ UNCHANGED <<tools, stdin_read, last, direct, chat>>

\* The exit status of the process, once it has ended.
ExitCode == IF pc = "fatal" THEN 1 ELSE 0

Next ==
    \/ \E line \in BlankLines : SkipBlank(line)
    \/ \E line \in NotJsonLines : ParseError(line)
    \/ \E line \in UndecodableLines : DecodeFailure(line)
    \/ \E line \in JsonLines : \E env \in EnvsOf(line) : HandleRequest(line, env)
    \/ EndOfInput
    \/ Interrupt
    \/ ReadFailure

Spec == Init /\ [][Next]_vars

(* ------------------------------------------------- the executor on its own *)

\* The command vectors the executor is called with.
Commands ==
    { <<>>,
      <<Str("nmap"), Str("-sV"), Str("-sC"), Str("10.0.0.1")>>,
      <<Str("which"), Str("nmap")>>,
      <<Str("iwlist"), Str("wlan0"), Str("scan")>>,
      <<Str("aircrack-ng"), Str("-w"), Str("/usr/share/wordlists/rockyou.txt"), Str("/tmp/c.cap")>>,
      <<Str("no-such-program")>> }

\* The timeouts the handlers pass (wifi_scan, the default, john_crack).
Timeouts == {30, 300, 3600}

\* The tools _check_tool_available is asked about.
Tools == {Str("nmap"), Str("iwlist"), Str("hashid"), Str("which"), Str("no-such-program")}

\* A call that has not returned yet.
Pending == Ret(Null, <<>>)

\* self._execute_command(cmd, timeout) and self._check_tool_available(tool),
\* about to be called in an environment.
DirectCalls ==
    { [fn |-> "_execute_command", cmd |-> cmd, timeout |-> timeout, env |-> env,
       done |-> FALSE, out |-> Pending] : cmd \in Commands, timeout \in Timeouts, env \in Envs }
    \cup
    { [fn |-> "_check_tool_available", tool |-> tool, env |-> env,
       done |-> FALSE, out |-> Pending] : tool \in Tools, env \in Envs }

ExecutorInit ==
    /\ tools = register_tools
    /\ stdin_read = <<>>
    /\ stdout = <<>>
    /\ flushed = 0
    /\ last = Idle
    /\ pc = "loop"
    /\ direct \in DirectCalls
    /\ chat = NoChat

\* The call of _execute_command runs to its end.
CallExecuteCommand ==
    /\ direct.fn = "_execute_command" /\ ~direct.done
    /\ \E out \in {execute_command(direct.cmd, direct.timeout, Null, direct.env, 1)} :
          direct' = [direct EXCEPT !.done = TRUE, !.out = out]
    /\ UNCHANGED <<tools, stdin_read, stdout, flushed, last, pc, chat>>

\* The call of _check_tool_available runs to its end.
CallCheckToolAvailable ==
    /\ direct.fn = "_check_tool_available" /\ ~direct.done
    /\ \E out \in {check_tool_available(direct.tool, direct.env, 1)} :
          direct' = [direct EXCEPT !.done = TRUE, !.out = out]
    /\ UNCHANGED <<tools, stdin_read, stdout, flushed, last, pc, chat>>

ExecutorNext ==
    \/ CallExecuteCommand
    \/ CallCheckToolAvailable

ExecutorSpec == ExecutorInit /\ [][ExecutorNext]_vars

(* ------------------------------------------------------- localai/chat.py *)

\* How many inputs the chat loop reads, and how many calls a user of the
\* ChatClient makes on its own.
MaxTurns == 3
MaxCalls == 3

CONNECTION_RETRIES == 3
RETRY_DELAY == 2

\* Text is a sequence of characters, so that str.strip() (Strip above) and
\* str.lower() do what they do.
UpperCase == <<"A", "B", "C", "D", "E", "F", "G", "H", "I", "J", "K", "L", "M",
               "N", "O", "P", "Q", "R", "S", "T", "U", "V", "W", "X", "Y", "Z">>

LowerCase == <<"a", "b", "c", "d", "e", "f", "g", "h", "i", "j", "k", "l", "m",
               "n", "o", "p", "q", "r", "s", "t", "u", "v", "w", "x", "y", "z">>

lower_char(c) ==
    IF \E i \in 1..Len(UpperCase) : UpperCase[i] = c
    THEN LowerCase[CHOOSE i \in 1..Len(UpperCase) : UpperCase[i] = c]
    ELSE c

RECURSIVE lower(_)
\* text.lower()
lower(text) ==
    IF Len(text) = 0 THEN <<>> ELSE <<lower_char(Head(text))>> \o lower(Tail(text))

\* What urlopen on /v1/chat/completions can do: a 200 answer whose JSON holds
\* choices[0].message.content (possibly empty), an "error" member, or no
\* choice at all; a 2xx answer other than 200; a body that is no JSON; and the
\* exceptions send_message names.
Contents == { <<"o", "k">>, <<>> }

Responses ==
    { [kind |-> "completion", status |-> 200, content |-> c] : c \in Contents }
    \cup
    { [kind |-> "error_member", status |-> 200],
      [kind |-> "no_choices", status |-> 200],
      [kind |-> "not_json", status |-> 200],
      [kind |-> "status", status |-> 204],
      [kind |-> "socket.timeout"],
      [kind |-> "URLError"],
      [kind |-> "HTTPError", code |-> 500],
      [kind |-> "KeyboardInterrupt"] }

\* send_message returned `value`, leaving `history` in conversation_history.
Returned(history, value) == [history |-> history, raised |-> FALSE, value |-> value]

\* send_message let a KeyboardInterrupt through.
Interrupted(history) == [history |-> history, raised |-> TRUE]

\* The two kinds of string send_message returns: the assistant's words, and a
\* message of its own.
Reply(content) == [type |-> "reply", content |-> content]
Message(text) == [type |-> "message", text |-> text]

\* send_message forgetting the user's entry when no reply came.
send_message_RollsBack(conversation_history, user_message, response) ==
    LET sent == Append(conversation_history, [role |-> "user", content |-> user_message])
    IN  CASE response.kind = "KeyboardInterrupt" -> Interrupted(sent)
          [] response.kind = "completion" /\ Len(response.content) > 0 ->
                Returned(Append(sent, [role |-> "assistant", content |-> response.content]),
                         Reply(response.content))
          [] OTHER -> Returned(conversation_history, Message("No response received from LocalAI"))

\* ChatClient.send_message(user_message) when LocalAI does `response`.
send_message(conversation_history, user_message, response) ==
    LET sent == Append(conversation_history, [role |-> "user", content |-> user_message])
    IN  CASE response.kind = "status" ->
                Returned(sent, Message("HTTP error 204: Unexpected response from LocalAI"))
          [] response.kind = "error_member" ->
                Returned(sent, Message("LocalAI error: {}"))
          [] response.kind = "completion" /\ Len(response.content) > 0 ->
                Returned(Append(sent, [role |-> "assistant", content |-> response.content]),
                         Reply(response.content))
          [] response.kind = "completion" /\ Len(response.content) = 0 ->
                Returned(sent, Message("No response received from LocalAI"))
          [] response.kind = "socket.timeout" ->
                Returned(sent, Message("Request timed out after 60 seconds. LocalAI may be busy or not responding. Check logs: justdo status"))
          [] response.kind = "URLError" ->
                Returned(sent, Message("Connection error: [Errno 111] Connection refused. Make sure LocalAI is running (justdo start)"))
          [] response.kind = "HTTPError" ->
                \* an HTTPError is a URLError: the inner handler takes it
                Returned(sent, Message("Connection error: Internal Server Error. Make sure LocalAI is running (justdo start)"))
          [] response.kind = "KeyboardInterrupt" ->
                Interrupted(sent)
          [] response.kind = "no_choices" ->
                Returned(sent, Message("Error: list index out of range"))
          [] response.kind = "not_json" ->
                Returned(sent, Message("Error: Expecting value: line 1 column 1 (char 0)"))

\* ChatClient.clear_history()
clear_history(conversation_history) == <<>>

\* The messages a user of the ChatClient sends.
Messages == { <<"h", "i">>, <<"s", "c", "a", "n">> }

\* Nothing called yet.
NoOperation == [op |-> "none", before |-> <<>>]

\* ChatClient(): an empty conversation_history.
ClientInit ==
    /\ tools = register_tools
    /\ stdin_read = <<>>
    /\ stdout = <<>>
    /\ flushed = 0
    /\ last = Idle
    /\ pc = "loop"
    /\ direct = NoCall
    /\ chat = [at |-> "client", conversation_history |-> <<>>, calls |-> 0,
               last |-> NoOperation]

\* client.send_message(user_message), to its return or to the interrupt.
CallSendMessage ==
    /\ chat.at = "client"
    /\ chat.calls < MaxCalls
    /\ \E user_message \in Messages, response \in Responses :
          \E out \in {send_message(chat.conversation_history, user_message, response)} :
             chat' = [chat EXCEPT
                        !.conversation_history = out.history,
                        !.calls = @ + 1,
                        !.last = [op |-> "send_message", before |-> chat.conversation_history,
                                  user_message |-> user_message, response |-> response,
                                  out |-> out]]
    /\ UNCHANGED <<tools, stdin_read, stdout, flushed, last, pc, direct>>

\* client.clear_history()
CallClearHistory ==
    /\ chat.at = "client"
    /\ chat.calls < MaxCalls
    /\ chat' = [chat EXCEPT
                  !.conversation_history = clear_history(chat.conversation_history),
                  !.calls = @ + 1,
                  !.last = [op |-> "clear_history", before |-> chat.conversation_history]]
    /\ UNCHANGED <<tools, stdin_read, stdout, flushed, last, pc, direct>>

ClientNext ==
    \/ CallSendMessage
    \/ CallClearHistory

ClientSpec == ClientInit /\ [][ClientNext]_vars

\* The ten checks of run_diagnostic_checklist. A world is the set of those
\* whose condition holds when it is looked at; "model_availability" is what
\* validate_model_availability finds and "model_request" what
\* test_model_request would find.
Checks == {"config", "model_file", "model_dir", "localai_process", "localai_api",
           "models_endpoint", "model_availability", "model_request", "mcp_server",
           "log_file"}

\* The worlds looked at: at most two conditions fail at a time.
Worlds == { world \in SUBSET Checks : Cardinality(Checks \ world) <= 2 }

\* run_diagnostic_checklist(client): each check's status. The model request
\* is tested only when the model is available, and fails otherwise.
run_diagnostic_checklist(world) ==
    [name \in Checks |->
        IF name = "model_request"
        THEN "model_availability" \in world /\ "model_request" \in world
        ELSE name \in world]

\* failed_checks = [name for name, (status, _) in results.items() if not status]
failed_checks(results) == { name \in Checks : ~results[name] }

\* The requests test_model_request posts to /v1/chat/completions in one run
\* of the checklist or of the validation.
TestRequests(world) == IF "model_availability" \in world THEN 1 ELSE 0

\* if attempt < CONNECTION_RETRIES - 1, with a sleep after the last attempt too
RetryPending_Always(attempt) == TRUE

\* if attempt < CONNECTION_RETRIES - 1: a retry is announced and slept for.
RetryPending(attempt) == attempt < CONNECTION_RETRIES - 1

\* for attempt in range(CONNECTION_RETRIES): the next iteration, or the
\* warning and the prompt after the last one.
NextIteration(attempt) == IF attempt < CONNECTION_RETRIES THEN "connect" ELSE "prompt"

\* What input() gives: a line without its newline, or an exception.
Line(text) == [kind |-> "line", text |-> text]
EndOfFile == [kind |-> "EOFError"]
CtrlC == [kind |-> "KeyboardInterrupt"]

\* The operator's answers to "Continue anyway? (y/n): ".
PromptAnswers ==
    { Line(<<"y">>), Line(<<" ", "Y", " ">>), Line(<<"n">>), Line(<<>>),
      Line(<<"y", "e", "s">>), EndOfFile, CtrlC }

\* A function of chat.py came back, or ended the process with sys.exit(status).
Back == [exit |-> FALSE]
Exit(status) == [exit |-> TRUE, status |-> status]

\* prompt_continue(message) when input() gives `answer`.
prompt_continue(answer) ==
    IF answer.kind = "line"
    THEN IF lower(Strip(answer.text)) # <<"y">> THEN Exit(1) ELSE Back
    ELSE Exit(1)

\* validate_environment(client, check_localai): the errors it collects.
validate_environment(world, check_localai) ==
    (IF "model_file" \notin world THEN {"Model file not found"} ELSE {})
    \cup
    (IF check_localai /\ "model_availability" \notin world
     THEN {"Model is not available in LocalAI"} ELSE {})
    \cup
    (IF check_localai /\ "model_availability" \in world /\ "model_request" \notin world
     THEN {"Model test failed"} ELSE {})

\* is_mcp_server_running(): pgrep finds the server's process.
is_mcp_server_running(world) == "mcp_server" \in world

\* check_mcp_server() going on without the server
check_mcp_server_Warns(world) == Back

\* check_mcp_server()
check_mcp_server(world) == IF is_mcp_server_running(world) THEN Back ELSE Exit(1)

\* "Hello! Introduce yourself briefly."
Greeting ==
    <<"H", "e", "l", "l", "o", "!", " ", "I", "n", "t", "r", "o", "d", "u", "c", "e", " ",
      "y", "o", "u", "r", "s", "e", "l", "f", " ", "b", "r", "i", "e", "f", "l", "y", ".">>

\* ['quit', 'exit'], without 'q'
QuitWords_NoQ == { <<"q", "u", "i", "t">>, <<"e", "x", "i", "t">> }

\* ['quit', 'exit', 'q']
QuitWords == { <<"q", "u", "i", "t">>, <<"e", "x", "i", "t">>, <<"q">> }

\* ['clear', 'reset']
ClearWords == { <<"c", "l", "e", "a", "r">>, <<"r", "e", "s", "e", "t">> }

\* handle_user_input(user_input, client) when LocalAI does `response` to what
\* it is sent: whether the loop goes on, the history left, and the calls of
\* send_message made.
handle_user_input(conversation_history, user_input, response) ==
    IF Len(user_input) = 0
    THEN [continue |-> TRUE, history |-> conversation_history, sent |-> <<>>]
    ELSE IF lower(user_input) \in QuitWords
    THEN [continue |-> FALSE, history |-> conversation_history, sent |-> <<>>]
    ELSE IF lower(user_input) \in ClearWords
    THEN [continue |-> TRUE, history |-> clear_history(conversation_history), sent |-> <<>>]
    ELSE One({ [continue |-> TRUE, history |-> out.history,
                sent |-> <<[user_message |-> user_input, response |-> response,
                            raised |-> out.raised]>>] :
               out \in {send_message(conversation_history, user_input, response)} })

\* What the user types at "You: ".
UserInputs ==
    { Line(<<>>), Line(<<" ">>),
      Line(<<"q", "u", "i", "t">>), Line(<<"Q">>), Line(<<" ", "E", "x", "i", "t", " ">>),
      Line(<<"c", "l", "e", "a", "r">>), Line(<<"R", "E", "S", "E", "T">>),
      Line(<<"h", "i">>), Line(<<" ", "s", "c", "a", "n", " ">>),
      EndOfFile, CtrlC }

\* The exit status of a Python process ended by an uncaught KeyboardInterrupt.
SIGINT_STATUS == 130

\* main() is called without --diagnose: ChatClient() has an empty history.
ChatInit ==
    /\ tools = register_tools
    /\ stdin_read = <<>>
    /\ stdout = <<>>
    /\ flushed = 0
    /\ last = Idle
    /\ pc = "loop"
    /\ direct = NoCall
    /\ chat = [at |-> "checklist", conversation_history |-> <<>>, attempt |-> 0,
               connected |-> FALSE, log |-> <<>>, requests |-> 0, sends |-> 0,
               turns |-> 0, status |-> 0, last |-> NoOperation]

\* results = run_diagnostic_checklist(client, show_all=False); with failed
\* checks the checklist is run again aloud and the process exits 1.
RunDiagnosticChecklist ==
    /\ chat.at = "checklist"
    /\ \E world \in Worlds, again \in Worlds :
          \E failed \in {failed_checks(run_diagnostic_checklist(world))} :
             chat' = IF failed # {}
                     THEN [chat EXCEPT
                             !.at = "exited", !.status = 1,
                             !.log = Append(@, [ev |-> "checklist", failed_checks |-> failed]),
                             !.requests = @ + TestRequests(world) + TestRequests(again)]
                     ELSE [chat EXCEPT
                             !.at = "connect",
                             !.log = Append(@, [ev |-> "checklist", failed_checks |-> failed]),
                             !.requests = @ + TestRequests(world)]
    /\ UNCHANGED <<tools, stdin_read, stdout, flushed, last, pc, direct>>

\* One iteration of check_localai_connection's loop up to its sleep:
\* client.check_connection(), returning True when it succeeds.
CheckConnection ==
    /\ chat.at = "connect"
    /\ chat.attempt \in 0..(CONNECTION_RETRIES - 1)
    /\ \E ok \in BOOLEAN :
          chat' = [chat EXCEPT
                     !.log = Append(@, [ev |-> "check_connection", attempt |-> chat.attempt,
                                        verbose |-> (chat.attempt = CONNECTION_RETRIES - 1),
                                        ok |-> ok]),
                     !.connected = ok,
                     !.attempt = IF ok \/ RetryPending(chat.attempt) THEN @ ELSE @ + 1,
                     !.at = IF ok THEN "validate"
                            ELSE IF RetryPending(chat.attempt) THEN "sleep"
                            ELSE NextIteration(chat.attempt + 1)]
    /\ UNCHANGED <<tools, stdin_read, stdout, flushed, last, pc, direct>>

\* time.sleep(RETRY_DELAY), and on to the next iteration.
RetrySleep ==
    /\ chat.at = "sleep"
    /\ chat' = [chat EXCEPT
                  !.log = Append(@, [ev |-> "sleep", seconds |-> RETRY_DELAY]),
                  !.attempt = @ + 1,
                  !.at = NextIteration(chat.attempt + 1)]
    /\ UNCHANGED <<tools, stdin_read, stdout, flushed, last, pc, direct>>

\* return prompt_continue("Continue anyway? (y/n): ")
PromptContinue ==
    /\ chat.at = "prompt"
    /\ \E answer \in PromptAnswers :
          \E out \in {prompt_continue(answer)} :
             chat' = IF out.exit
                     THEN [chat EXCEPT
                             !.at = "exited", !.status = out.status,
                             !.log = Append(@, [ev |-> "prompt", answer |-> answer])]
                     ELSE [chat EXCEPT
                             !.at = "validate", !.connected = TRUE,
                             !.log = Append(@, [ev |-> "prompt", answer |-> answer])]
    /\ UNCHANGED <<tools, stdin_read, stdout, flushed, last, pc, direct>>

\* validate_environment(client, check_localai=connected)
ValidateEnvironment ==
    /\ chat.at = "validate"
    /\ \E world \in Worlds :
          \E errors \in {validate_environment(world, chat.connected)} :
             chat' = [chat EXCEPT
                        !.at = IF errors # {} THEN "exited" ELSE "mcp",
                        !.status = IF errors # {} THEN 1 ELSE @,
                        !.log = Append(@, [ev |-> "validate", errors |-> errors]),
                        !.requests = @ + (IF chat.connected THEN TestRequests(world) ELSE 0)]
    /\ UNCHANGED <<tools, stdin_read, stdout, flushed, last, pc, direct>>

\* check_mcp_server(), then client.print_welcome()
CheckMcpServer ==
    /\ chat.at = "mcp"
    /\ \E world \in Worlds :
          \E out \in {check_mcp_server(world)} :
             chat' = [chat EXCEPT
                        !.at = IF out.exit THEN "exited" ELSE "greeting",
                        !.status = IF out.exit THEN out.status ELSE @,
                        !.log = Append(@, [ev |-> "check_mcp_server",
                                           running |-> is_mcp_server_running(world)])]
    /\ UNCHANGED <<tools, stdin_read, stdout, flushed, last, pc, direct>>

\* if connected: send_initial_greeting(client); a KeyboardInterrupt in it
\* ends the process with status 0.
SendInitialGreeting ==
    /\ chat.at = "greeting"
    /\ \E response \in Responses :
          \E out \in {send_message(chat.conversation_history, Greeting, response)} :
             chat' = IF ~chat.connected
                     THEN [chat EXCEPT !.at = "loop"]
                     ELSE [chat EXCEPT
                             !.at = IF out.raised THEN "exited" ELSE "loop",
                             !.conversation_history = out.history,
                             !.sends = @ + 1,
                             !.last = [op |-> "greeting", before |-> chat.conversation_history,
                                       response |-> response, raised |-> out.raised]]
    /\ UNCHANGED <<tools, stdin_read, stdout, flushed, last, pc, direct>>

\* One iteration of run_chat_loop that read a line: input("You: ").strip()
\* and handle_user_input; when that returns False the loop, main() and the
\* process end.
ChatInput ==
    /\ chat.at = "loop"
    /\ chat.turns < MaxTurns
    /\ \E input \in UserInputs, response \in Responses :
          /\ input.kind = "line"
          /\ \E out \in {handle_user_input(chat.conversation_history, Strip(input.text),
                                           response)} :
                chat' = [chat EXCEPT
                           !.at = IF out.continue THEN "loop" ELSE "exited",
                           !.conversation_history = out.history,
                           !.sends = @ + Len(out.sent),
                           !.turns = @ + 1,
                           !.last = [op |-> "input", before |-> chat.conversation_history,
                                     input |-> input.text, sent |-> out.sent,
                                     continue |-> out.continue]]
    /\ UNCHANGED <<tools, stdin_read, stdout, flushed, last, pc, direct>>

\* input("You: ") raises EOFError or KeyboardInterrupt: the loop breaks.
ChatEndOfInput ==
    /\ chat.at = "loop"
    /\ chat.turns < MaxTurns
    /\ \E input \in UserInputs :
          /\ input.kind # "line"
          /\ chat' = [chat EXCEPT
                        !.at = "exited",
                        !.turns = @ + 1,
                        !.last = [op |-> "end_of_input", before |-> chat.conversation_history,
                                  input |-> input.kind]]
    /\ UNCHANGED <<tools, stdin_read, stdout, flushed, last, pc, direct>>

\* Ctrl-C while main() is in its checks, where nothing catches it.
InterruptMain ==
    /\ chat.at \in {"checklist", "connect", "sleep", "validate", "mcp"}
    /\ chat' = [chat EXCEPT !.at = "exited", !.status = SIGINT_STATUS]
    /\ UNCHANGED <<tools, stdin_read, stdout, flushed, last, pc, direct>>

ChatNext ==
    \/ RunDiagnosticChecklist
    \/ CheckConnection
    \/ RetrySleep
    \/ PromptContinue
    \/ ValidateEnvironment
    \/ CheckMcpServer
    \/ SendInitialGreeting
    \/ ChatInput
    \/ ChatEndOfInput
    \/ InterruptMain

ChatSpec == ChatInit /\ [][ChatNext]_vars

(* -------------------------------------------------------------- properties *)

\* The line is one the loop answers and goes on from: not blank, and either
\* decoded or rejected as not JSON.
Responded(line) == line.kind \in {"json", "notjson"}

\* The lines read that the loop answered, in the order read.
Answered == SelectSeq(stdin_read, Responded)

\* The line the last iteration read.
LastLine == stdin_read[Len(stdin_read)]

\* The response the last iteration wrote.
LastResponse == stdout[Len(stdout)]

\* The last step of the loop read a line (and the process has not ended).
JustRead == pc = "loop" /\ stdin_read # <<>>

\* The number of lines main() prints besides the responses of the loop.
FatalLines == IF pc = "fatal" THEN 1 ELSE 0

IsObjectLine(line) == line.kind = "json" /\ IsDict(line.value)

\* The line is a JSON object whose "method" is v.
HasMethod(line, v) == IsObjectLine(line) /\ Get(line.value, "method", Null) = v

KnownMethods == {Str("initialize"), Str("tools/list"), Str("tools/call")}

\* The response has the member.
Has(response, member) == member \in DOMAIN response.m

\* The response's "error" member is an object with a numeric "code" and a
\* string "message".
IsErrorObject(response) ==
    /\ Has(response, "error")
    /\ response.m["error"].t = "obj"
    /\ {"code", "message"} \subseteq DOMAIN response.m["error"].m
    /\ response.m["error"].m["code"].t = "num"
    /\ response.m["error"].m["message"].t = "str"

\* The text of the response's error: the message of an error object, or the
\* error itself when it is a bare string.
ErrorText(response) ==
    IF response.m["error"].t = "obj" THEN PyStr(response.m["error"].m["message"])
    ELSE PyStr(response.m["error"])

\* The text is one of the server's message frames around the word.
Names(text, word) ==
    \E before \in {"", "'", "Unknown method: ", "Unknown tool: ", "Error processing request: '",
                   "Internal error: '", "Missing required parameter: "},
       after \in {"", "'"} : text = before \o word \o after

\* C1: every line that decodes as a JSON object gets exactly one response
\* line, in its place, whose "id" is the request's "id" member, or null when
\* the request has none.
C1_OneResponseWithRequestId ==
    /\ Len(stdout) = Len(Answered) + FatalLines
    /\ \A k \in 1..Len(Answered) :
         IsObjectLine(Answered[k]) =>
           /\ IsDict(stdout[k])
           /\ Has(stdout[k], "id")
           /\ stdout[k].m["id"] = Get(Answered[k].value, "id", Null)

\* A request with an id and a request without one have both been answered.
C1_Witness ==
    /\ Len(Answered) = 2 /\ Len(stdout) = 2
    /\ IsObjectLine(Answered[1]) /\ Get(Answered[1].value, "id", Null) = Num(1)
    /\ stdout[1].m["id"] = Num(1)
    /\ IsObjectLine(Answered[2]) /\ "id" \notin DOMAIN Answered[2].value.m
    /\ stdout[2].m["id"] = Null

\* C2: no input line ends the server: a step that reads a non-blank line
\* (malformed, of an unknown method, with invalid params, for an unknown tool
\* or for a tool that fails) writes exactly one response line and leaves the
\* loop running, ready for the next line.
C2_ServerSurvivesEveryLine ==
    [][ (stdin_read' # stdin_read /\ ~IsBlank(stdin_read'[Len(stdin_read')])) =>
          /\ pc' = "loop"
          /\ Len(stdout') = Len(stdout) + 1
          /\ SubSeq(stdout', 1, Len(stdout)) = stdout ]_vars

\* C3: a request whose method is none of initialize, tools/list, tools/call
\* is answered by an error object with a numeric code and a message naming
\* the received method.
C3_UnknownMethodErrorCode ==
    \A k \in 1..Len(Answered) :
      (IsObjectLine(Answered[k]) /\ Get(Answered[k].value, "method", Null) \notin KnownMethods) =>
        /\ IsErrorObject(stdout[k])
        /\ ErrorText(stdout[k]) = "Unknown method: " \o PyStr(Get(Answered[k].value, "method", Null))

\* The request is a tools/call whose params name a tool (a string) and give
\* arguments that are a dictionary, or none.
IsToolCall(line) ==
    /\ HasMethod(line, Str("tools/call"))
    /\ IsDict(Get(line.value, "params", Obj(EmptyDict)))
    /\ Get(Get(line.value, "params", Obj(EmptyDict)), "name", Null).t = "str"
    /\ Truthy(Get(Get(line.value, "params", Obj(EmptyDict)), "name", Null))
    /\ IsDict(Get(Get(line.value, "params", Obj(EmptyDict)), "arguments", Obj(EmptyDict)))

ToolOf(line) == PyStr(Get(line.value, "params", Null).m["name"])
ArgumentsOf(line) == Get(Get(line.value, "params", Null), "arguments", Obj(EmptyDict))

\* The names tools/list reports.
Registered == { tools[i].m["name"].s : i \in 1..Len(tools) }

\* The required parameters the registry declares for the tool.
Required(name) ==
    LET d == CHOOSE i \in 1..Len(tools) : tools[i].m["name"].s = name
        required == tools[d].m["inputSchema"].m["required"].a
    IN { required[i].s : i \in 1..Len(required) }

\* C4: a tools/call of a tool that is not in the registry is answered by a
\* protocol error naming the tool, not by a result, and invokes no handler.
C4_UnknownToolIsProtocolError ==
    (JustRead /\ IsToolCall(LastLine) /\ ToolOf(LastLine) \notin Registered) =>
      /\ Has(LastResponse, "error")
      /\ ~Has(LastResponse, "content") /\ ~Has(LastResponse, "result")
      /\ Names(ErrorText(LastResponse), ToolOf(LastLine))
      /\ last.handler = ""

\* C5: a tools/call of a registered tool whose arguments omit a required
\* parameter is answered by an invalid-params error object naming a missing
\* field, and makes no executor call, not even an availability check.
C5_MissingParameterIsInvalidParams ==
    (JustRead /\ IsToolCall(LastLine) /\ ToolOf(LastLine) \in Registered
       /\ Required(ToolOf(LastLine)) \ DOMAIN ArgumentsOf(LastLine).m # {}) =>
      /\ IsErrorObject(LastResponse)
      /\ \E field \in Required(ToolOf(LastLine)) \ DOMAIN ArgumentsOf(LastLine).m :
           Names(ErrorText(LastResponse), field)
      /\ last.log = <<>>

C7_ResultXorError ==
    \A k \in 1..Len(stdout) : Has(stdout[k], "result") # Has(stdout[k], "error")

\* C8: in every line written that has an "error" member, that member is an
\* object with a numeric code and a string message.
C8_ErrorsAreErrorObjects ==
    \A k \in 1..Len(stdout) : Has(stdout[k], "error") => IsErrorObject(stdout[k])

\* C9: a tools/call of a registered tool that reached the executor is
\* answered by a result (content, no protocol-level error), whatever became
\* of the command.
C9_ExecutionFailureIsResult ==
    (JustRead /\ IsToolCall(LastLine) /\ last.handler # "" /\ last.log # <<>>
       /\ Required(last.handler) \subseteq DOMAIN ArgumentsOf(LastLine).m) =>
      /\ Has(LastResponse, "content")
      /\ ~Has(LastResponse, "error")

\* C10: an exception raised while a handler runs is answered by an error
\* object carrying the internal-error code.
C10_HandlerExceptionIsInternalError ==
    (JustRead /\ last.handler # "" /\ last.caught # "") =>
      /\ IsErrorObject(LastResponse)
      /\ LastResponse.m["error"].m["code"] = Num(InternalErrorCode)

\* The direct call of _execute_command, or of _check_tool_available, has ended.
Executed == direct.fn = "_execute_command" /\ direct.done
Checked == direct.fn = "_check_tool_available" /\ direct.done

\* The log holds a process launch.
Spawned(log) == \E i \in 1..Len(log) : log[i].ev = "spawn"

\* The log holds the end, by force, of the process launched for cmd.
Killed(log, cmd) == \E i \in 1..Len(log) : log[i].ev = "kill" /\ log[i].cmd = cmd

\* C11: _execute_command, given a command whose program the search path does
\* not resolve, returns the failed result "Command not found: <name>" with
\* the exit sentinel -1, and launches no process.
C11_NotResolvableNeverSpawns ==
    (Executed /\ direct.cmd # <<>> /\ PyStr(direct.cmd[1]) \notin direct.env.path) =>
      /\ ~direct.out.raised
      /\ direct.out.val = ExecutionResult(FALSE, <<>>,
                                          <<"Command not found: " \o PyStr(direct.cmd[1])>>, -1)
      /\ ~Spawned(direct.out.log)

\* C12: _execute_command, given a resolvable command whose process outlives
\* the timeout, returns the failed result "Command timed out after <N>
\* seconds" with the exit sentinel -1, the process having been killed.
C12_TimeoutKillsAndReports ==
    (Executed /\ direct.cmd # <<>> /\ PyStr(direct.cmd[1]) # "which"
       /\ {"which", PyStr(direct.cmd[1])} \subseteq direct.env.path
       /\ direct.env.proc = "timeout") =>
      /\ ~direct.out.raised
      /\ direct.out.val = ExecutionResult(FALSE, <<>>,
                                          <<"Command timed out after " \o ToString(direct.timeout)
                                            \o " seconds">>, -1)
      /\ Killed(direct.out.log, direct.cmd)

\* The names a tools/list response reports.
ListedNames(response) ==
    { response.m["tools"].a[i].m["name"].s : i \in 1..Len(response.m["tools"].a) }

\* C13: the names tools/list reports are exactly the names tools/call
\* resolves a handler for: a call of a listed name reaches the handler of
\* that name, a call of any other name reaches none, and every key of the
\* handlers dictionary is listed.
C13_ListedNamesAreHandledNames ==
    /\ \A k \in 1..Len(Answered) :
         HasMethod(Answered[k], Str("tools/list")) =>
           /\ Has(stdout[k], "tools")
           /\ ListedNames(stdout[k]) = Registered
    /\ (JustRead /\ IsToolCall(LastLine)) =>
         IF ToolOf(LastLine) \in Registered
         THEN last.handler = ToolOf(LastLine)
         ELSE last.handler = ""
    /\ HandlerNames \subseteq Registered

\* tools/list was answered, and then a call of a listed tool reached its
\* handler.
C13_Witness ==
    /\ JustRead /\ Len(stdin_read) = 2 /\ Len(stdout) = 2
    /\ HasMethod(stdin_read[1], Str("tools/list"))
    /\ "wifi_scan" \in ListedNames(stdout[1])
    /\ IsToolCall(LastLine) /\ ToolOf(LastLine) = "wifi_scan"
    /\ last.handler = "wifi_scan"

\* C14: no request changes the registry: whatever lines came before,
\* tools/list is answered with the 8 descriptors built at start-up.
C14_RegistryUnchanged ==
    /\ tools = register_tools
    /\ \A k \in 1..Len(Answered) :
         HasMethod(Answered[k], Str("tools/list")) =>
           /\ Has(stdout[k], "tools")
           /\ stdout[k].m["tools"] = Arr(register_tools)
           /\ Len(stdout[k].m["tools"].a) = 8

\* A tool call reached its handler, and tools/list was answered after it.
C14_Witness ==
    /\ JustRead /\ Len(stdin_read) = 2 /\ Len(stdout) = 2
    /\ IsToolCall(stdin_read[1]) /\ ToolOf(stdin_read[1]) \in Registered
    /\ Has(stdout[1], "error")
    /\ HasMethod(LastLine, Str("tools/list"))
    /\ Len(LastResponse.m["tools"].a) = 8

\* The response is the kind of answer the line calls for: the parse error
\* for text that is not JSON, and for a decoded line a response with the id
\* main() gives it and the members the method's answer has.
Answers(response, line) ==
    IF line.kind = "notjson"
    THEN IsErrorObject(response) /\ response.m["error"].m["code"] = Num(ParseErrorCode)
    ELSE IF ~IsDict(line.value)
    THEN Has(response, "error") /\ response.m["id"] = Null
    ELSE /\ response.m["id"] = Get(line.value, "id", Null)
         /\ CASE HasMethod(line, Str("tools/list")) -> Has(response, "tools")
              [] HasMethod(line, Str("initialize")) -> Has(response, "protocolVersion")
              [] HasMethod(line, Str("tools/call")) ->
                   Has(response, "content") \/ Has(response, "error")
              [] OTHER ->
                   /\ Has(response, "error")
                   /\ ErrorText(response) =
                        "Unknown method: " \o PyStr(Get(line.value, "method", Null))

\* C15: responses are written in the order the requests were read, each
\* before the next line is read: in every state there are as many response
\* lines as answered lines, and the k-th response answers the k-th of them.
C15_ResponsesInRequestOrder ==
    /\ Len(stdout) = Len(Answered) + FatalLines
    /\ \A k \in 1..Len(Answered) : Answers(stdout[k], Answered[k])

\* Two requests of different methods and ids were answered, each in its
\* place.
C15_Witness ==
    /\ JustRead /\ Len(stdin_read) = 2 /\ Len(stdout) = 2
    /\ HasMethod(stdin_read[1], Str("initialize")) /\ Has(stdout[1], "protocolVersion")
    /\ HasMethod(stdin_read[2], Str("tools/list")) /\ Has(stdout[2], "tools")
    /\ stdout[1].m["id"] # stdout[2].m["id"]

\* C16: a step that reads a blank line (empty or whitespace only) writes
\* no response and dispatches nothing, and the loop goes on.
C16_BlankLineSkipped ==
    [][ (stdin_read' # stdin_read /\ IsBlank(stdin_read'[Len(stdin_read')])) =>
          /\ stdout' = stdout
          /\ ~last'.dispatched
          /\ pc' = "loop" ]_vars

\* A request was answered, and then a line of blanks was read and skipped.
C16_Witness ==
    /\ JustRead /\ Len(stdin_read) = 2 /\ Len(stdout) = 1
    /\ IsObjectLine(stdin_read[1])
    /\ LastLine = BlankLine("  ")
    /\ ~last.dispatched

\* The params of the request (the dictionary process_request reads them from).
ParamsOf(line) == Get(line.value, "params", Obj(EmptyDict))

\* C17: a tools/call whose params lack the tool name, or give arguments
\* that are no mapping, is answered by an invalid-params error object, and
\* no handler is invoked.
C17_BadCallIsInvalidParams ==
    (JustRead /\ HasMethod(LastLine, Str("tools/call")) /\ IsDict(ParamsOf(LastLine))
       /\ \/ "name" \notin DOMAIN ParamsOf(LastLine).m
          \/ ~IsDict(Get(ParamsOf(LastLine), "arguments", Obj(EmptyDict)))) =>
      /\ IsErrorObject(LastResponse)
      /\ last.handler = ""

\* The line is a fatal-error response: code -32603, a message that starts
\* with "Fatal error: ", and a null id.
IsFatalResponse(response) ==
    \E msg \in {"[Errno 5] Input/output error"} \cup { line.msg : line \in UndecodableLines } :
       response = ErrorResponse(-32603, "Fatal error: " \o msg, Null)

\* C18: a process that ended at the end of the input or on an interrupt has
\* exit code 0 and wrote no fatal-error response; one that ended after a
\* top-level failure has exit code 1 and wrote exactly one fatal-error
\* response, as its last line.
C18_ExitCodes ==
    /\ pc \in {"returned", "interrupted"} =>
         /\ ExitCode = 0
         /\ \A k \in 1..Len(stdout) : ~IsFatalResponse(stdout[k])
    /\ pc = "fatal" =>
         /\ ExitCode = 1
         /\ stdout # <<>> /\ IsFatalResponse(LastResponse)
         /\ \A k \in 1..(Len(stdout) - 1) : ~IsFatalResponse(stdout[k])
    /\ pc = "loop" => \A k \in 1..Len(stdout) : ~IsFatalResponse(stdout[k])

\* Two lines were answered, then reading failed: three lines written, the
\* last of them the fatal error, and exit code 1.
C18_Witness ==
    /\ pc = "fatal" /\ ExitCode = 1
    /\ Len(Answered) = 2 /\ Len(stdout) = 3
    /\ IsFatalResponse(stdout[3])

\* C19: every call of the executor returns: _execute_command an
\* ExecutionResult, and _check_tool_available a boolean that is true exactly
\* when `which <tool>` finds the tool.
C19_ExecutorReturns ==
    /\ Executed =>
         /\ ~direct.out.raised
         /\ DOMAIN direct.out.val = {"success", "stdout", "stderr", "returncode"}
    /\ Checked =>
         /\ ~direct.out.raised
         /\ direct.out.val = ({"which", PyStr(direct.tool)} \subseteq direct.env.path)

\* The payload a tools/call response carries: the value its text serialises.
PayloadOf(response) == response.m["content"].a[1].m["text"].dumps

\* C20: a tools/call of hash_identify with a hash text, where neither hashid
\* nor hash-identifier is installed, is answered by result content whose
\* payload gives the length of the hash and, for 32 hexadecimal characters,
\* the type MD5, with the id of the request.
C20_HashIdentifyHeuristic ==
    (JustRead /\ IsToolCall(LastLine) /\ ToolOf(LastLine) = "hash_identify"
       /\ "hash" \in DOMAIN ArgumentsOf(LastLine).m
       /\ "chars" \in DOMAIN ArgumentsOf(LastLine).m["hash"]
       /\ last.env.path \cap {"hashid", "hash-identifier"} = {}) =>
      /\ Has(LastResponse, "content") /\ ~Has(LastResponse, "error")
      /\ LastResponse.m["id"] = Get(LastLine.value, "id", Null)
      /\ PayloadOf(LastResponse).m["length"] = Num(Len(ArgumentsOf(LastLine).m["hash"].chars))
      /\ (Len(ArgumentsOf(LastLine).m["hash"].chars) = 32
            /\ AllHex(ArgumentsOf(LastLine).m["hash"].chars)) =>
           PayloadOf(LastResponse).m["possible_types"] = Arr(<<Str("MD5")>>)

\* The direct call is of a command that the search path resolves (as it
\* does `which`) and that is not `which` itself.
RunsResolvable ==
    /\ Executed /\ direct.cmd # <<>> /\ PyStr(direct.cmd[1]) # "which"
    /\ {"which", PyStr(direct.cmd[1])} \subseteq direct.env.path

\* C21: _execute_command of a resolvable command that runs to its end
\* returns the real exit status and the captured output, with success true
\* exactly when the exit status is zero.
C21_CompletedCommandResult ==
    (RunsResolvable /\ direct.env.proc \in {"exit0", "exit1"}) =>
      /\ ~direct.out.raised
      /\ direct.out.val.returncode = (IF direct.env.proc = "exit0" THEN 0 ELSE 1)
      /\ direct.out.val.success = (direct.out.val.returncode = 0)
      /\ direct.out.val.stdout = direct.env.out

\* C22: _execute_command of the empty command returns success false,
\* "Empty command" and the exit sentinel -1, having made no availability
\* check and launched no process, whatever the environment.
C22_EmptyCommandFirst ==
    (Executed /\ direct.cmd = <<>>) =>
      /\ ~direct.out.raised
      /\ direct.out.val = ExecutionResult(FALSE, <<>>, <<"Empty command">>, -1)
      /\ direct.out.log = <<[ev |-> "exec", cmd |-> <<>>]>>

\* The empty command was executed where nothing is installed, not even
\* `which`.
C22_Witness ==
    /\ Executed /\ direct.cmd = <<>>
    /\ direct.env.path = {}
    /\ direct.out.val.returncode = -1

\* The programs a handler needs one of.
Binaries(name) ==
    CASE name = "nmap_scan" -> {"nmap"}
      [] name = "sqlmap_scan" -> {"sqlmap"}
      [] name = "gobuster_scan" -> {"gobuster"}
      [] name = "john_crack" -> {"john"}
      [] name = "aircrack_crack" -> {"aircrack-ng"}
      [] name = "wifi_scan" -> {"iwlist", "iw"}
      [] OTHER -> {}

\* The messages of the handlers for a program that is not installed.
NotInstalledMessages ==
    { Str(tool \o " not found. Install with: just install-kali-tools")
        : tool \in {"nmap", "sqlmap", "gobuster", "john", "aircrack-ng"} }
    \cup { Str("WiFi scanning tools not found. Install wireless-tools or iw") }

\* The log holds a call of the executor for a command of one of the programs.
Attempted(log, programs) ==
    \E i \in 1..Len(log) :
       log[i].ev = "exec" /\ log[i].cmd # <<>> /\ PyStr(log[i].cmd[1]) \in programs

\* C23: a tools/call of a handler none of whose programs is installed is
\* answered by content whose payload is the handler's "not found / install"
\* message, with no attempt to execute the tool's command.
C23_UnavailableBinaryShortCircuits ==
    (JustRead /\ IsToolCall(LastLine) /\ last.handler # ""
       /\ Binaries(last.handler) # {}
       /\ Binaries(last.handler) \cap last.env.path = {}) =>
      /\ Has(LastResponse, "content") /\ ~Has(LastResponse, "error")
      /\ PayloadOf(LastResponse).m["error"] \in NotInstalledMessages
      /\ ~Attempted(last.log, Binaries(last.handler))

\* C24: whenever the loop is about to read a line, or has ended, every
\* response written so far has been flushed.
C24_EveryResponseFlushed ==
    flushed = Len(stdout)

\* A parse-error response and an internal-error response were written, and
\* both are flushed.
C24_Witness ==
    /\ JustRead /\ Len(stdout) = 2 /\ flushed = 2
    /\ IsErrorObject(stdout[1]) /\ stdout[1].m["error"].m["code"] = Num(ParseErrorCode)
    /\ IsErrorObject(stdout[2]) /\ stdout[2].m["error"].m["code"] = Num(InternalErrorCode)

\* The text in the brackets that follow the marker "KEY FOUND", stripped.
MarkerPassword(pieces) ==
    LET marker == CHOOSE i \in 1..Len(pieces) : pieces[i] = "KEY FOUND"
        open == CHOOSE i \in (marker + 1)..Len(pieces) :
                   pieces[i] = "[" /\ \A j \in (marker + 1)..(i - 1) : pieces[j] # "["
        close == CHOOSE i \in (open + 1)..Len(pieces) :
                    pieces[i] = "]" /\ \A j \in (open + 1)..(i - 1) : pieces[j] # "]"
    IN Strip(SubSeq(pieces, open + 1, close - 1))

\* C25: a tools/call of aircrack_crack with its parameters, files and
\* program in place is answered by content whose payload's password is the
\* bracketed text after "KEY FOUND" when the command succeeded with that
\* marker in its output, and null otherwise.
C25_AircrackPassword ==
    (JustRead /\ IsToolCall(LastLine) /\ ToolOf(LastLine) = "aircrack_crack"
       /\ Required("aircrack_crack") \subseteq DOMAIN ArgumentsOf(LastLine).m
       /\ {"which", "aircrack-ng"} \subseteq last.env.path
       /\ {"/tmp/c.cap", "/usr/share/wordlists/rockyou.txt"} \subseteq last.env.files) =>
      /\ Has(LastResponse, "content")
      /\ PayloadOf(LastResponse).m["password"] =
           (IF last.env.proc = "exit0" /\ KeyFound(last.env.out)
            THEN StrT(MarkerPassword(last.env.out)) ELSE Null)

\* C26: a step that reads a line of JSON that is no object writes exactly
\* one response line, whose id is null, and leaves the loop running.
C26_NonObjectAnswered ==
    [][ (stdin_read' # stdin_read
           /\ stdin_read'[Len(stdin_read')].kind = "json"
           /\ ~IsDict(stdin_read'[Len(stdin_read')].value)) =>
          /\ pc' = "loop"
          /\ Len(stdout') = Len(stdout) + 1
          /\ SubSeq(stdout', 1, Len(stdout)) = stdout
          /\ IsDict(stdout'[Len(stdout')])
          /\ Has(stdout'[Len(stdout')], "id")
          /\ stdout'[Len(stdout')].m["id"] = Null ]_vars

\* The array ["id"] was answered with a null id, and a request after it was
\* answered too.
C26_Witness ==
    /\ JustRead /\ Len(stdin_read) = 2 /\ Len(stdout) = 2
    /\ stdin_read[1] = Json(Arr(<<Str("id")>>))
    /\ stdout[1].m["id"] = Null
    /\ IsObjectLine(stdin_read[2])

(* ------------------------------------------------- properties of chat.py *)

\* LocalAI answered 200 with a non-empty choices[0].message.content.
Replied(response) == response.kind = "completion" /\ response.content # <<>>

\* `a` is how `b` begins.
IsPrefix(a, b) == Len(a) <= Len(b) /\ SubSeq(b, 1, Len(a)) = a

\* C28: a send_message(m) that returns has appended to conversation_history
\* exactly the user entry for m and the assistant's reply when LocalAI gave a
\* non-empty reply (which is what it returns), and exactly the user entry for m
\* in every other case, returning a message of its own; whatever is not
\* clear_history leaves the entries that were there in place.
C28_HistoryGrowth ==
    /\ (chat.last.op = "send_message" /\ ~chat.last.out.raised) =>
          LET user == [role |-> "user", content |-> chat.last.user_message]
              assistant == [role |-> "assistant", content |-> chat.last.response.content]
          IN  IF Replied(chat.last.response)
              THEN /\ chat.last.out.value = Reply(chat.last.response.content)
                   /\ chat.conversation_history = chat.last.before \o <<user, assistant>>
              ELSE /\ chat.last.out.value.type = "message"
                   /\ chat.conversation_history = chat.last.before \o <<user>>
    /\ chat.last.op # "clear_history" =>
          IsPrefix(chat.last.before, chat.conversation_history)

\* A send_message that got no reply, after one that did: the history holds
\* the earlier exchange and the new user entry.
C28_Witness ==
    /\ chat.last.op = "send_message"
    /\ ~chat.last.out.raised
    /\ ~Replied(chat.last.response)
    /\ Len(chat.last.before) >= 2
    /\ chat.last.before[2].role = "assistant"
    /\ Len(chat.conversation_history) = Len(chat.last.before) + 1

\* The connection attempts made before position i of main()'s log.
AttemptsBefore(i) == { j \in 1..(i - 1) : chat.log[j].ev = "check_connection" }

\* The positions of the log at which `ev` happened.
Events(ev) == { i \in 1..Len(chat.log) : chat.log[i].ev = ev }

\* Every one of the CONNECTION_RETRIES attempts was made and failed.
AllAttemptsFailed ==
    /\ Cardinality(Events("check_connection")) = CONNECTION_RETRIES
    /\ \A i \in Events("check_connection") : ~chat.log[i].ok

\* The operator's answer is 'y', spaces and case aside.
SaysYes(answer) == answer \in { Line(<<"y">>), Line(<<" ", "Y", " ">>) }

\* check_localai_connection returned True: main() has its `connected`.
ConnectionReturned == chat.connected

\* C27: check_localai_connection makes at most CONNECTION_RETRIES attempts and
\* none after a successful one, on which it returns True; it sleeps RETRY_DELAY
\* only after a failed attempt that is not the last one, with the next attempt
\* following; when all attempts failed it prompts, and returns True exactly
\* when the answer is 'y', the process exiting with status 1 otherwise.
C27_ConnectionRetries ==
    /\ Cardinality(Events("check_connection")) <= CONNECTION_RETRIES
    /\ \A i \in Events("check_connection") :
          chat.log[i].ok =>
             /\ \A j \in Events("check_connection") \cup Events("sleep") \cup Events("prompt") :
                   j <= i
             /\ chat.connected
             /\ chat.at \notin {"connect", "sleep", "prompt"}
    /\ \A i \in Events("sleep") :
          /\ chat.log[i].seconds = RETRY_DELAY
          /\ i > 1 /\ chat.log[i - 1].ev = "check_connection" /\ ~chat.log[i - 1].ok
          /\ Cardinality(AttemptsBefore(i)) < CONNECTION_RETRIES
          /\ i < Len(chat.log) => chat.log[i + 1].ev = "check_connection"
    /\ chat.at = "sleep" => Cardinality(Events("check_connection")) < CONNECTION_RETRIES
    /\ \A i \in Events("prompt") :
          /\ AllAttemptsFailed
          /\ chat.log[i - 1].ev = "check_connection"
          /\ IF SaysYes(chat.log[i].answer)
             THEN ConnectionReturned /\ chat.at \notin {"connect", "sleep", "prompt"}
             ELSE chat.at = "exited" /\ chat.status = 1 /\ i = Len(chat.log)
    /\ AllAttemptsFailed => chat.at = "prompt" \/ Events("prompt") # {}
    /\ ConnectionReturned =>
          \/ \E i \in Events("check_connection") : chat.log[i].ok
          \/ \E i \in Events("prompt") : SaysYes(chat.log[i].answer)

\* Three failed attempts with a sleep after the first and the second only,
\* then " Y " at the prompt: the function returned True and main() went on.
C27_Witness ==
    /\ AllAttemptsFailed
    /\ Cardinality(Events("sleep")) = CONNECTION_RETRIES - 1
    /\ \E i \in Events("prompt") : chat.log[i].answer = Line(<<" ", "Y", " ">>)
    /\ chat.connected
    /\ chat.at = "validate"

\* `text` is one of `words`, in whatever case it is written.
AnyCaseOf(text, words) ==
    \E word \in words :
        /\ Len(text) = Len(word)
        /\ \A i \in 1..Len(word) : text[i] = word[i] \/ lower_char(text[i]) = word[i]

\* C29: of what the user types at the prompt (spaces around it aside),
\* 'quit', 'exit' and 'q' in any case end the loop and the process with the
\* history as it was, 'clear' and 'reset' leave the history empty and the loop
\* running, an empty input changes nothing, and none of these calls
\* send_message; any other input is passed to send_message exactly once, as
\* the user entry appended to the history, and the loop goes on.
C29_ControlInputsNotSent ==
    chat.last.op = "input" =>
       LET text == Strip(chat.last.input)
           before == chat.last.before
           sent == chat.last.sent
       IN  IF AnyCaseOf(text, { <<"q", "u", "i", "t">>, <<"e", "x", "i", "t">>, <<"q">> })
           THEN /\ sent = <<>>
                /\ chat.conversation_history = before
                /\ chat.at = "exited" /\ chat.status = 0
           ELSE IF AnyCaseOf(text, { <<"c", "l", "e", "a", "r">>, <<"r", "e", "s", "e", "t">> })
           THEN /\ sent = <<>>
                /\ chat.conversation_history = <<>>
                /\ chat.at = "loop"
           ELSE IF text = <<>>
           THEN /\ sent = <<>>
                /\ chat.conversation_history = before
                /\ chat.at = "loop"
           ELSE /\ Len(sent) = 1
                /\ sent[1].user_message = text
                /\ IsPrefix(Append(before, [role |-> "user", content |-> text]),
                            chat.conversation_history)
                /\ chat.at = "loop"

\* "Q" typed after " scan " was sent and answered: the loop ended, nothing
\* was sent for it, and the exchange about scan is still the end of the
\* history.
C29_Witness ==
    /\ chat.last.op = "input"
    /\ chat.last.input = <<"Q">>
    /\ chat.last.sent = <<>>
    /\ chat.at = "exited"
    /\ Len(chat.conversation_history) >= 2
    /\ chat.conversation_history[Len(chat.conversation_history) - 1]
          = [role |-> "user", content |-> <<"s", "c", "a", "n">>]
    /\ chat.conversation_history[Len(chat.conversation_history)].role = "assistant"

\* main() has reached run_chat_loop.
LoopEntered == chat.at = "loop" \/ chat.last.op \in {"input", "end_of_input"}

\* The three gates of main(), as its log shows them passed.
ChecklistPassed == \E i \in Events("checklist") : chat.log[i].failed_checks = {}
ValidationPassed == \E i \in Events("validate") : chat.log[i].errors = {}
McpServerFound == \E i \in Events("check_mcp_server") : chat.log[i].running

\* One of the three gates failed.
GateFailed ==
    \/ \E i \in Events("checklist") : chat.log[i].failed_checks # {}
    \/ \E i \in Events("validate") : chat.log[i].errors # {}
    \/ \E i \in Events("check_mcp_server") : ~chat.log[i].running

\* C30: main() reaches the greeting and the chat loop, and send_message is
\* called at all, only with the checklist passed without a failed check, the
\* validation passed without an error and check_mcp_server having found the
\* server; when one of them fails the process has exited with status 1, the
\* loop was not entered and send_message was never called.
C30_LoopOnlyAfterChecks ==
    /\ (LoopEntered \/ chat.at = "greeting" \/ chat.sends > 0) =>
          ChecklistPassed /\ ValidationPassed /\ McpServerFound
    /\ GateFailed =>
          /\ chat.at = "exited" /\ chat.status = 1
          /\ ~LoopEntered
          /\ chat.sends = 0 /\ chat.conversation_history = <<>>

\* The loop entered and an input sent, the three gates passed, after three
\* failed connection attempts and a 'y' at the prompt.
C30_Witness ==
    /\ chat.at = "loop"
    /\ chat.last.op = "input" /\ Len(chat.last.sent) = 1
    /\ chat.sends = 2
    /\ AllAttemptsFailed
    /\ ChecklistPassed /\ ValidationPassed /\ McpServerFound

====
